---- MODULE Spec2Model ----
(***************************************************************************)
(* A model of the dusk-network sparse Merkle tree: the lazily memoized     *)
(* Node (dusk-merkle/src/node.rs), the Tree container (src/tree.rs) and    *)
(* the Opening proof (src/opening.rs).                                     *)
(*                                                                         *)
(* Rust's Option<X> is modelled as a sequence of length 0 (None) or 1      *)
(* (Some(x)); Rust's 0-based array index i is the 1-based index i + 1.     *)
(* The item type is the String of the opening tests: a string is the       *)
(* sequence chars[..len], and aggregation is concatenation.                *)
(***************************************************************************)
EXTENDS Integers, Sequences, FiniteSets, TLC

\* ------------------------------------------------------------------------
\* Parameters of the instantiation and bounds of the exploration
\* ------------------------------------------------------------------------

\* Tree<T, H, A> as instantiated by SmallTree (HEIGHT_2, ARITY_2).
H == 2
A == 2

\* Positions up to capacity + Beyond are offered to the operations.
Beyond == 1

\* A Walk is asked for its next leaf at most MaxCalls times.
MaxCalls == 6

\* The characters that are inserted as leaves.
Letters == {"A", "B"}

\* ------------------------------------------------------------------------
\* The state
\* ------------------------------------------------------------------------

VARIABLES
    root,       \* Tree.root: the root Node
    positions,  \* Tree.positions: the set of occupied positions
    leaves,     \* history: the item last inserted at each position and not removed since
    ret,        \* the last call: its name, arguments and result
    panicked,   \* a call has aborted the process
    kept,       \* the Opening the caller holds, with the position and leaf it was made for
    bytes,      \* the buffer the caller holds
    parsed,     \* the last result of Opening::from_slice
    walk,       \* the Walk the caller holds
    eager       \* the Tree of src/src/lib.rs, given the same inserts and removes

vars == <<root, positions, leaves, ret, panicked, kept, bytes, parsed, walk, eager>>

\* What the caller holds besides the tree.
caller == <<kept, bytes, parsed, walk>>

\* ------------------------------------------------------------------------
\* Option<X>
\* ------------------------------------------------------------------------

None == <<>>

Some(x) == <<x>>

IsNone(o) == Len(o) = 0

IsSome(o) == Len(o) = 1

Unwrap(o) == o[1]

\* ------------------------------------------------------------------------
\* The Aggregate implementation: strings under concatenation
\* ------------------------------------------------------------------------

\* From<char> for String: the one-character string.
IntoItem(c) == <<c>>

EMPTY_SUBTREE == <<>>

RECURSIVE Fold(_, _, _)
Fold(items, i, acc) ==
    IF i > Len(items) THEN acc ELSE Fold(items, i + 1, acc \o items[i])

\* Aggregate::aggregate: `items` holds the A child items from the leftmost
\* to the rightmost.
aggregate(items) == Fold(items, 1, EMPTY_SUBTREE)

\* ------------------------------------------------------------------------
\* capacity and the descent
\* ------------------------------------------------------------------------

RECURSIVE Pow(_, _)
Pow(base, exp) == IF exp = 0 THEN 1 ELSE base * Pow(base, exp - 1)

\* u64::pow(arity, depth); no power taken by this instantiation reaches 2^64.
capacity(arity, depth) == Pow(arity, depth)

Capacity == capacity(A, H)

\* A u64 is four limbs of 16 bits, the least significant first: the
\* arithmetic of the model checker is narrower than 64 bits.
LimbBase == 65536

U64_ONE == <<1, 0, 0, 0>>

\* The limbs i.. of x * k plus a carry, for a small k, and the carry that
\* falls off the last limb.
RECURSIVE MulLimbs(_, _, _, _)
MulLimbs(x, k, i, carry) ==
    IF i > Len(x) THEN [limbs |-> <<>>, carry |-> carry]
    ELSE LET product == x[i] * k + carry
             rest == MulLimbs(x, k, i + 1, product \div LimbBase)
         IN  [limbs |-> <<product % LimbBase>> \o rest.limbs, carry |-> rest.carry]

\* u64::pow(arity, depth as u32): the value modulo 2^64 and whether a
\* multiplication overflowed.
RECURSIVE capacity_u64(_, _)
capacity_u64(arity, depth) ==
    IF depth = 0 THEN [limbs |-> U64_ONE, overflow |-> FALSE]
    ELSE CHOOSE r \in UNION {
             {[limbs |-> product.limbs, overflow |-> below.overflow \/ product.carry # 0] :
                 product \in {MulLimbs(below.limbs, arity, 1, 0)}} :
             below \in {capacity_u64(arity, depth - 1)}} : TRUE

\* A descent that takes the least significant digit of the position first.
child_locationLowDigitFirst(height, position) ==
    <<position % A, position \div A>>

\* A descent that wraps the child index into [0, A).
child_locationWrapped(height, position) ==
    LET child_cap == capacity(A, H - height - 1)
    IN  <<(position \div child_cap) % A, position % child_cap>>

\* Node::child_location: <<child_index, child_pos>>. The cast of the index
\* to usize changes nothing where usize has 64 bits.
child_location(height, position) ==
    LET child_cap == capacity(A, H - height - 1)
    IN  <<position \div child_cap, position % child_cap>>

\* ------------------------------------------------------------------------
\* Node
\* ------------------------------------------------------------------------

Node_new == [item |-> None, children |-> [i \in 1..A |-> None]]

HasChildren(node) == \E i \in 1..A : IsSome(node.children[i])

\* Node::item, as the node it leaves behind: the cache of this node and of
\* every stale descendant it asked is filled.
RECURSIVE Node_item(_)
Node_item(node) ==
    IF IsSome(node.item) THEN node
    ELSE LET kids == [i \in 1..A |->
                        IF IsNone(node.children[i]) THEN None
                        ELSE Some(Node_item(Unwrap(node.children[i])))]
             item_refs == [i \in 1..A |->
                        IF IsNone(kids[i]) THEN EMPTY_SUBTREE
                        ELSE Unwrap(Unwrap(kids[i]).item)]
             has_children == \E i \in 1..A : IsSome(kids[i])
         IN  [item |-> IF has_children THEN Some(aggregate(item_refs))
                       ELSE Some(EMPTY_SUBTREE),
              children |-> kids]

\* The value Node::item returns.
ItemOf(node) == Unwrap(Node_item(node).item)

\* The number of times a call of Node::item on `node` invokes T::aggregate:
\* none for a node with a cached item, else the calls its present children
\* make plus its own when it has a child.
RECURSIVE Node_itemCalls(_)
RECURSIVE Node_itemChildCalls(_, _)
Node_itemChildCalls(node, n) ==
    IF n = 0 THEN 0
    ELSE Node_itemChildCalls(node, n - 1)
            + (IF IsNone(node.children[n]) THEN 0
               ELSE Node_itemCalls(Unwrap(node.children[n])))

Node_itemCalls(node) ==
    IF IsSome(node.item) THEN 0
    ELSE Node_itemChildCalls(node, A) + (IF HasChildren(node) THEN 1 ELSE 0)

RECURSIVE Node_insert(_, _, _, _)

\* Node::insert without the invalidation of the node's cache.
Node_insertKeepsCache(node, height, position, item) ==
    IF height = H THEN [panic |-> FALSE, node |-> [node EXCEPT !.item = Some(item)]]
    ELSE LET loc == child_location(height, position)
             child_index == loc[1]
             child_pos == loc[2]
         IN  IF child_index >= A THEN [panic |-> TRUE, node |-> node]
             ELSE LET child == IF IsNone(node.children[child_index + 1]) THEN Node_new
                               ELSE Unwrap(node.children[child_index + 1])
                      r == Node_insert(child, height + 1, child_pos, item)
                  IN  [panic |-> r.panic,
                       node |-> [node EXCEPT !.children[child_index + 1] = Some(r.node)]]

\* Node::insert that leaves the item of an occupied leaf as it is.
Node_insertFirstWins(node, height, position, item) ==
    IF height = H
    THEN [panic |-> FALSE,
          node |-> IF IsSome(node.item) THEN node ELSE [node EXCEPT !.item = Some(item)]]
    ELSE LET loc == child_location(height, position)
             child_index == loc[1]
             child_pos == loc[2]
             stale == [node EXCEPT !.item = None]
         IN  IF child_index >= A THEN [panic |-> TRUE, node |-> stale]
             ELSE LET child == IF IsNone(node.children[child_index + 1]) THEN Node_new
                               ELSE Unwrap(node.children[child_index + 1])
                      r == Node_insert(child, height + 1, child_pos, item)
                  IN  [panic |-> r.panic,
                       node |-> [stale EXCEPT !.children[child_index + 1] = Some(r.node)]]

\* Node::insert that also invalidates the caches of the node's other
\* internal children.
Node_insertStalesSiblings(node, height, position, item) ==
    IF height = H THEN [panic |-> FALSE, node |-> [node EXCEPT !.item = Some(item)]]
    ELSE LET loc == child_location(height, position)
             child_index == loc[1]
             child_pos == loc[2]
             stale == [node EXCEPT !.item = None,
                                   !.children = [i \in 1..A |->
                                       IF IsSome(@[i]) /\ height + 1 < H
                                       THEN Some([Unwrap(@[i]) EXCEPT !.item = None])
                                       ELSE @[i]]]
         IN  IF child_index >= A THEN [panic |-> TRUE, node |-> stale]
             ELSE LET child == IF IsNone(node.children[child_index + 1]) THEN Node_new
                               ELSE Unwrap(node.children[child_index + 1])
                      r == Node_insert(child, height + 1, child_pos, item)
                  IN  [panic |-> r.panic,
                       node |-> [stale EXCEPT !.children[child_index + 1] = Some(r.node)]]

\* Node::insert. An index outside [0, A) aborts the call.
Node_insert(node, height, position, item) ==
    IF height = H THEN [panic |-> FALSE, node |-> [node EXCEPT !.item = Some(item)]]
    ELSE LET loc == child_location(height, position)
             child_index == loc[1]
             child_pos == loc[2]
             stale == [node EXCEPT !.item = None]
         IN  IF child_index >= A THEN [panic |-> TRUE, node |-> stale]
             ELSE LET child == IF IsNone(node.children[child_index + 1]) THEN Node_new
                               ELSE Unwrap(node.children[child_index + 1])
                      r == Node_insert(child, height + 1, child_pos, item)
                  IN  [panic |-> r.panic,
                       node |-> [stale EXCEPT !.children[child_index + 1] = Some(r.node)]]

RECURSIVE Node_remove(_, _, _)

\* Node::remove without the invalidation of the node's cache.
Node_removeKeepsCache(node, height, position) ==
    IF height = H
    THEN IF IsNone(node.item)
         THEN [panic |-> TRUE, node |-> node, item |-> None, has_children |-> FALSE]
         ELSE [panic |-> FALSE, node |-> [node EXCEPT !.item = None],
               item |-> node.item, has_children |-> FALSE]
    ELSE LET loc == child_location(height, position)
             child_index == loc[1]
             child_pos == loc[2]
         IN  IF child_index >= A \/ IsNone(node.children[child_index + 1])
             THEN [panic |-> TRUE, node |-> node, item |-> None, has_children |-> FALSE]
             ELSE LET r == Node_remove(Unwrap(node.children[child_index + 1]),
                                       height + 1, child_pos)
                      after == [node EXCEPT !.children[child_index + 1] =
                                   IF r.has_children THEN Some(r.node) ELSE None]
                  IN  IF r.panic
                      THEN [panic |-> TRUE, node |-> node, item |-> None,
                            has_children |-> FALSE]
                      ELSE [panic |-> FALSE, node |-> after, item |-> r.item,
                            has_children |-> HasChildren(after)]

\* Node::remove that leaves the emptied child in its slot.
Node_removeKeepsChild(node, height, position) ==
    IF height = H
    THEN IF IsNone(node.item)
         THEN [panic |-> TRUE, node |-> node, item |-> None, has_children |-> FALSE]
         ELSE [panic |-> FALSE, node |-> [node EXCEPT !.item = None],
               item |-> node.item, has_children |-> FALSE]
    ELSE LET loc == child_location(height, position)
             child_index == loc[1]
             child_pos == loc[2]
             stale == [node EXCEPT !.item = None]
         IN  IF child_index >= A \/ IsNone(node.children[child_index + 1])
             THEN [panic |-> TRUE, node |-> stale, item |-> None, has_children |-> FALSE]
             ELSE LET r == Node_remove(Unwrap(node.children[child_index + 1]),
                                       height + 1, child_pos)
                      after == [stale EXCEPT !.children[child_index + 1] =
                                   IF height + 1 = H /\ ~r.has_children THEN None
                                   ELSE Some(r.node)]
                  IN  IF r.panic
                      THEN [panic |-> TRUE,
                            node |-> [stale EXCEPT !.children[child_index + 1] = Some(r.node)],
                            item |-> None, has_children |-> FALSE]
                      ELSE [panic |-> FALSE, node |-> after, item |-> r.item,
                            has_children |-> HasChildren(after)]

\* Node::remove that also invalidates the caches of the node's other
\* internal children.
Node_removeStalesSiblings(node, height, position) ==
    IF height = H
    THEN IF IsNone(node.item)
         THEN [panic |-> TRUE, node |-> node, item |-> None, has_children |-> FALSE]
         ELSE [panic |-> FALSE, node |-> [node EXCEPT !.item = None],
               item |-> node.item, has_children |-> FALSE]
    ELSE LET loc == child_location(height, position)
             child_index == loc[1]
             child_pos == loc[2]
             stale == [node EXCEPT !.item = None,
                                   !.children = [i \in 1..A |->
                                       IF IsSome(@[i]) /\ height + 1 < H
                                       THEN Some([Unwrap(@[i]) EXCEPT !.item = None])
                                       ELSE @[i]]]
         IN  IF child_index >= A \/ IsNone(node.children[child_index + 1])
             THEN [panic |-> TRUE, node |-> stale, item |-> None, has_children |-> FALSE]
             ELSE LET r == Node_remove(Unwrap(node.children[child_index + 1]),
                                       height + 1, child_pos)
                      after == [stale EXCEPT !.children[child_index + 1] =
                                   IF r.has_children THEN Some(r.node) ELSE None]
                  IN  IF r.panic
                      THEN [panic |-> TRUE,
                            node |-> [stale EXCEPT !.children[child_index + 1] = Some(r.node)],
                            item |-> None, has_children |-> FALSE]
                      ELSE [panic |-> FALSE, node |-> after, item |-> r.item,
                            has_children |-> HasChildren(after)]

\* Node::remove: the node left behind, the removed item, and whether the
\* node still has children. A missing child or a missing leaf item aborts.
Node_remove(node, height, position) ==
    IF height = H
    THEN IF IsNone(node.item)
         THEN [panic |-> TRUE, node |-> node, item |-> None, has_children |-> FALSE]
         ELSE [panic |-> FALSE, node |-> [node EXCEPT !.item = None],
               item |-> node.item, has_children |-> FALSE]
    ELSE LET loc == child_location(height, position)
             child_index == loc[1]
             child_pos == loc[2]
             stale == [node EXCEPT !.item = None]
         IN  IF child_index >= A \/ IsNone(node.children[child_index + 1])
             THEN [panic |-> TRUE, node |-> stale, item |-> None, has_children |-> FALSE]
             ELSE LET r == Node_remove(Unwrap(node.children[child_index + 1]),
                                       height + 1, child_pos)
                      after == [stale EXCEPT !.children[child_index + 1] =
                                   IF r.has_children THEN Some(r.node) ELSE None]
                  IN  IF r.panic
                      THEN [panic |-> TRUE,
                            node |-> [stale EXCEPT !.children[child_index + 1] = Some(r.node)],
                            item |-> None, has_children |-> FALSE]
                      ELSE [panic |-> FALSE, node |-> after, item |-> r.item,
                            has_children |-> HasChildren(after)]

\* ------------------------------------------------------------------------
\* Opening
\* ------------------------------------------------------------------------

\* fill_opening: the opening and the node it leaves behind (reading a
\* child's item fills that child's cache). The rows are written while the
\* recursion unwinds, the leaf level first.
RECURSIVE fill_openingLeafRowFirst(_, _, _, _)

\* fill_opening that stores the rows in the order it writes them, the leaf
\* level first.
fill_openingLeafRowFirst(opening, node, height, position) ==
    IF height = H THEN [panic |-> FALSE, opening |-> opening, node |-> node]
    ELSE LET loc == child_location(height, position)
             child_index == loc[1]
             child_pos == loc[2]
         IN  IF child_index >= A \/ IsNone(node.children[child_index + 1])
             THEN [panic |-> TRUE, opening |-> opening, node |-> node]
             ELSE LET r == fill_openingLeafRowFirst(opening, Unwrap(node.children[child_index + 1]),
                                                    height + 1, child_pos)
                      descended == [node EXCEPT !.children[child_index + 1] = Some(r.node)]
                      kids == [i \in 1..A |->
                                 IF IsNone(descended.children[i]) THEN None
                                 ELSE Some(Node_item(Unwrap(descended.children[i])))]
                      row == [i \in 1..A |->
                                 IF IsNone(kids[i]) THEN r.opening.branch[height + 1][i]
                                 ELSE Unwrap(Unwrap(kids[i]).item)]
                  IN  IF r.panic
                      THEN [panic |-> TRUE, opening |-> r.opening, node |-> descended]
                      ELSE [panic |-> FALSE,
                            opening |-> [r.opening EXCEPT !.branch[H - height] = row,
                                                          !.positions[height + 1] = child_index],
                            node |-> [node EXCEPT !.children = kids]]

RECURSIVE fill_opening(_, _, _, _)

\* fill_opening
fill_opening(opening, node, height, position) ==
    IF height = H THEN [panic |-> FALSE, opening |-> opening, node |-> node]
    ELSE LET loc == child_location(height, position)
             child_index == loc[1]
             child_pos == loc[2]
         IN  IF child_index >= A \/ IsNone(node.children[child_index + 1])
             THEN [panic |-> TRUE, opening |-> opening, node |-> node]
             ELSE LET r == fill_opening(opening, Unwrap(node.children[child_index + 1]),
                                        height + 1, child_pos)
                      descended == [node EXCEPT !.children[child_index + 1] = Some(r.node)]
                      kids == [i \in 1..A |->
                                 IF IsNone(descended.children[i]) THEN None
                                 ELSE Some(Node_item(Unwrap(descended.children[i])))]
                      row == [i \in 1..A |->
                                 IF IsNone(kids[i]) THEN r.opening.branch[height + 1][i]
                                 ELSE Unwrap(Unwrap(kids[i]).item)]
                  IN  IF r.panic
                      THEN [panic |-> TRUE, opening |-> r.opening, node |-> descended]
                      ELSE [panic |-> FALSE,
                            opening |-> [r.opening EXCEPT !.branch[height + 1] = row,
                                                          !.positions[height + 1] = child_index],
                            node |-> [node EXCEPT !.children = kids]]

\* Opening::new: the root item is read first, then the branch is filled.
Opening_new(tree_root, position) ==
    LET read == Node_item(tree_root)
        blank == [root |-> Unwrap(read.item),
                  branch |-> [h \in 1..H |-> [i \in 1..A |-> EMPTY_SUBTREE]],
                  positions |-> [h \in 1..H |-> 0]]
    IN  fill_opening(blank, read, 0, position)

\* The loop of Opening::verify from level h down to level 0, then the
\* comparison with the root. Indexing a level outside [0, A) aborts.
RECURSIVE verify_from(_, _, _)
verify_from(opening, item, h) ==
    IF h < 0 THEN [panic |-> FALSE, ok |-> opening.root = item]
    ELSE LET level == opening.branch[h + 1]
             position == opening.positions[h + 1]
         IN  IF position >= A THEN [panic |-> TRUE, ok |-> FALSE]
             ELSE IF item # level[position + 1] THEN [panic |-> FALSE, ok |-> FALSE]
             ELSE verify_from(opening, aggregate(level), h - 1)

\* A verify that starts from the leaf recorded in the branch and never
\* looks at the candidate.
verifyIgnoresCandidate(opening, item) ==
    IF opening.positions[H] >= A THEN [panic |-> TRUE, ok |-> FALSE]
    ELSE verify_from(opening, opening.branch[H][opening.positions[H] + 1], H - 1)

\* verify against the root the tree has now instead of the root the
\* Opening carries.
verifyAgainstLiveRoot(opening, item) ==
    verify_from([opening EXCEPT !.root = ItemOf(root)], item, H - 1)

\* verify without the final comparison with the root.
verifySkipsRoot(opening, item) ==
    verify_from([opening EXCEPT !.root = aggregate(opening.branch[1])], item, H - 1)

\* Opening::verify
verify(opening, item) == verify_from(opening, item, H - 1)

\* opening.verify(item) returns true.
Verifies(opening, item) ==
    LET v == verify(opening, item) IN ~v.panic /\ v.ok

\* ------------------------------------------------------------------------
\* Serialization (Opening::to_var_bytes, Opening::from_slice)
\*
\* A byte is a number in 0..255 and a buffer a sequence of bytes.  The item
\* type is serialized the way the Item of the serialization test is: a
\* fixed-size zero-initialised block that starts with a tag, here the length
\* of the string, followed by its characters; a tag that is out of range or
\* a byte that is no character is InvalidData.
\* ------------------------------------------------------------------------

\* Serializable::SIZE of the item: the length byte and TREE_CAP characters.
T_SIZE == 1 + Capacity

\* u32::BITS / 8
U32_SIZE == 4

CharCode(c) == IF c = "A" THEN 65 ELSE 66

IsCharCode(b) == \E c \in Letters : CharCode(c) = b

CharOfCode(b) == CHOOSE c \in Letters : CharCode(c) = b

\* Serializable::to_bytes of the item
Item_to_bytes(item) ==
    <<Len(item)>> \o [i \in 1..Capacity |->
                        IF i <= Len(item) THEN CharCode(item[i]) ELSE 0]

Ok(value) == [ok |-> TRUE, value |-> Some(value), error |-> None]

Err(error) == [ok |-> FALSE, value |-> None, error |-> Some(error)]

InvalidData == [kind |-> "InvalidData", found |-> 0, expected |-> 0]

BadLength(found, expected) == [kind |-> "BadLength", found |-> found, expected |-> expected]

\* Serializable::from_bytes of the item, on a block of T_SIZE bytes
Item_from_bytes(buf) ==
    IF Len(buf) # T_SIZE THEN Err(BadLength(Len(buf), T_SIZE))
    ELSE IF buf[1] > Capacity THEN Err(InvalidData)
    ELSE IF \E i \in 1..buf[1] : ~IsCharCode(buf[i + 1]) THEN Err(InvalidData)
    ELSE Ok([i \in 1..buf[1] |-> CharOfCode(buf[i + 1])])

\* u32::to_bytes: four bytes, the least significant first.  The cast
\* `*pos as u32` is the identity on every index an Opening can hold.
u32_to_bytes(n) ==
    <<n % 256, (n \div 256) % 256, (n \div 65536) % 256, (n \div 16777216) % 256>>

\* u32::from_reader on four bytes, widened by `as usize`
u32_from_bytes(b) ==
    b[1] + 256 * b[2] + 65536 * b[3] + 16777216 * b[4]

\* The bytes of the items k.. of the branch, row by row.
RECURSIVE BranchBytes(_, _)
BranchBytes(branch, k) ==
    IF k = H * A THEN <<>>
    ELSE Item_to_bytes(branch[(k \div A) + 1][(k % A) + 1]) \o BranchBytes(branch, k + 1)

\* The bytes of the indices h.. .
RECURSIVE PositionsBytes(_, _)
PositionsBytes(indices, h) ==
    IF h = H THEN <<>>
    ELSE u32_to_bytes(indices[h + 1]) \o PositionsBytes(indices, h + 1)

\* The length both directions compute.
expected_len == (1 + H * A) * T_SIZE + H * U32_SIZE

\* to_var_bytes that writes the indices before the branch.
to_var_bytesIndicesFirst(opening) ==
    Item_to_bytes(opening.root) \o PositionsBytes(opening.positions, 0)
        \o BranchBytes(opening.branch, 0)

\* Opening::to_var_bytes
to_var_bytes(opening) ==
    Item_to_bytes(opening.root) \o BranchBytes(opening.branch, 0)
        \o PositionsBytes(opening.positions, 0)

\* The block of T_SIZE bytes where item k starts: k = 0 is the root, k >= 1
\* the items of the branch.
ItemBlock(buf, k) == SubSeq(buf, k * T_SIZE + 1, (k + 1) * T_SIZE)

\* The block of four bytes of index h.
IndexBlock(buf, h) ==
    SubSeq(buf, (1 + H * A) * T_SIZE + h * U32_SIZE + 1,
                (1 + H * A) * T_SIZE + (h + 1) * U32_SIZE)

\* The loop over the branch: items k.. are read into `branch`; the first one
\* that fails to decode ends the call with its error.
RECURSIVE ReadBranch(_, _, _)
ReadBranch(buf, branch, k) ==
    IF k = H * A THEN Ok(branch)
    ELSE LET item == Item_from_bytes(ItemBlock(buf, k + 1))
         IN  IF ~item.ok THEN Err(Unwrap(item.error))
             ELSE ReadBranch(buf,
                             [branch EXCEPT ![(k \div A) + 1][(k % A) + 1] = Unwrap(item.value)],
                             k + 1)

\* from_slice that puts EMPTY_SUBTREE where an item does not decode.
from_sliceLenient(buf) ==
    IF Len(buf) # expected_len THEN Err(BadLength(Len(buf), expected_len))
    ELSE LET read(k) == LET item == Item_from_bytes(ItemBlock(buf, k))
                        IN  IF item.ok THEN Unwrap(item.value) ELSE EMPTY_SUBTREE
         IN  Ok([root |-> read(0),
                 branch |-> [h \in 1..H |-> [i \in 1..A |-> read((h - 1) * A + i)]],
                 positions |-> [h \in 1..H |-> u32_from_bytes(IndexBlock(buf, h - 1))]])

\* from_slice that leaves the indices at their initial zero.
from_sliceBlankPositions(buf) ==
    IF Len(buf) # expected_len THEN Err(BadLength(Len(buf), expected_len))
    ELSE LET root_item == Item_from_bytes(ItemBlock(buf, 0))
         IN  IF ~root_item.ok THEN Err(Unwrap(root_item.error))
             ELSE LET branch == ReadBranch(buf, [h \in 1..H |-> [i \in 1..A |-> EMPTY_SUBTREE]], 0)
                  IN  IF ~branch.ok THEN Err(Unwrap(branch.error))
                      ELSE Ok([root |-> Unwrap(root_item.value),
                               branch |-> Unwrap(branch.value),
                               positions |-> [h \in 1..H |-> 0]])

\* Opening::from_slice
from_slice(buf) ==
    IF Len(buf) # expected_len THEN Err(BadLength(Len(buf), expected_len))
    ELSE LET root_item == Item_from_bytes(ItemBlock(buf, 0))
         IN  IF ~root_item.ok THEN Err(Unwrap(root_item.error))
             ELSE LET branch == ReadBranch(buf, [h \in 1..H |-> [i \in 1..A |-> EMPTY_SUBTREE]], 0)
                  IN  IF ~branch.ok THEN Err(Unwrap(branch.error))
                      ELSE Ok([root |-> Unwrap(root_item.value),
                               branch |-> Unwrap(branch.value),
                               positions |-> [h \in 1..H |->
                                                u32_from_bytes(IndexBlock(buf, h - 1))]])

\* ------------------------------------------------------------------------
\* Walk
\*
\* A reference &Node the Walk holds is the sequence of child indices that
\* leads from the root to the node: the tree is borrowed while the Walk
\* lives, so the sequence keeps naming the same node.  Reading an item
\* through such a reference fills the caches of the tree.
\* ------------------------------------------------------------------------

\* The walker functions handed to Tree::walk.
Walkers == {"any", "hasB", "firstA"}

\* (self.walker)(&item)
Walker(name, item) ==
    CASE name = "any" -> TRUE
      [] name = "hasB" -> \E n \in 1..Len(item) : item[n] = "B"
      [] name = "firstA" -> Len(item) > 0 /\ item[1] = "A"

\* The node a reference names.
RECURSIVE NodeAt(_, _)
NodeAt(node, ref) ==
    IF ref = <<>> THEN node
    ELSE NodeAt(Unwrap(node.children[Head(ref) + 1]), Tail(ref))

RECURSIVE ReadAt(_, _)

\* item() through a reference that leaves the cache of the node it read
\* empty.
ReadAtForgets(node, ref) ==
    IF ref = <<>> THEN [Node_item(node) EXCEPT !.item = IF HasChildren(node) THEN None ELSE @]
    ELSE [node EXCEPT !.children[Head(ref) + 1] =
             Some(ReadAt(Unwrap(node.children[Head(ref) + 1]), Tail(ref)))]

\* The tree after item() was called on the node a reference names.
ReadAt(node, ref) ==
    IF ref = <<>> THEN Node_item(node)
    ELSE [node EXCEPT !.children[Head(ref) + 1] =
             Some(ReadAt(Unwrap(node.children[Head(ref) + 1]), Tail(ref)))]

\* The position of the leaf a reference of length H names.
RECURSIVE PositionOf(_)
PositionOf(ref) ==
    IF ref = <<>> THEN 0
    ELSE Head(ref) * Pow(A, Len(ref) - 1) + PositionOf(Tail(ref))

\* Walk::new
Walk_new(walker) ==
    [walker |-> walker,
     path |-> [h \in 1..H |-> None],
     indices |-> [h \in 1..H |-> 0]]

\* What a step of advance leaves behind and returns; a returned leaf is its
\* item together with the position it sits at.
Advanced(w, tree_root, item) == [walk |-> w, root |-> tree_root, item |-> item]

RECURSIVE LeafScanStuck(_, _, _, _, _)

\* The scan of the leaves that stores the index of the leaf it returns
\* instead of the one after it.
LeafScanStuck(w, tree_root, node, h, i) ==
    IF i >= A THEN Advanced([w EXCEPT !.indices[h + 1] = 0], tree_root, None)
    ELSE LET moved == [w EXCEPT !.indices[h + 1] = i]
         IN  IF IsNone(NodeAt(tree_root, node).children[i + 1])
             THEN LeafScanStuck(moved, tree_root, node, h, i + 1)
             ELSE LET leaf == Append(node, i)
                      read == ReadAt(tree_root, leaf)
                      item == ItemOf(NodeAt(read, leaf))
                  IN  IF Walker(w.walker, item)
                      THEN Advanced(moved, read,
                                    Some([item |-> item, position |-> PositionOf(leaf)]))
                      ELSE LeafScanStuck(moved, read, node, h, i + 1)

RECURSIVE LeafScan(_, _, _, _, _)

\* advance at h = H - 1: the loop `for i in *index..A` from i on.
LeafScan(w, tree_root, node, h, i) ==
    IF i >= A THEN Advanced([w EXCEPT !.indices[h + 1] = 0], tree_root, None)
    ELSE LET moved == [w EXCEPT !.indices[h + 1] = i + 1]
         IN  IF IsNone(NodeAt(tree_root, node).children[i + 1])
             THEN LeafScan(moved, tree_root, node, h, i + 1)
             ELSE LET leaf == Append(node, i)
                      read == ReadAt(tree_root, leaf)
                      item == ItemOf(NodeAt(read, leaf))
                  IN  IF Walker(w.walker, item)
                      THEN Advanced(moved, read,
                                    Some([item |-> item, position |-> PositionOf(leaf)]))
                      ELSE LeafScan(moved, read, node, h, i + 1)

RECURSIVE FirstScan(_, _, _, _, _)

\* advance with no child in the path: the loop `for i in 0..A` from i on,
\* left at the first child the walker accepts.
FirstScan(w, tree_root, node, h, i) ==
    IF i >= A THEN Advanced(w, tree_root, None)
    ELSE LET moved == [w EXCEPT !.indices[h + 1] = i]
         IN  IF IsNone(NodeAt(tree_root, node).children[i + 1])
             THEN FirstScan(moved, tree_root, node, h, i + 1)
             ELSE LET child == Append(node, i)
                      read == ReadAt(tree_root, child)
                  IN  IF Walker(w.walker, ItemOf(NodeAt(read, child)))
                      THEN Advanced([moved EXCEPT !.path[h + 1] = Some(child)], read, None)
                      ELSE FirstScan(moved, read, node, h, i + 1)

RECURSIVE advance(_, _, _, _)

RECURSIVE NextScan(_, _, _, _, _)

\* advance after the child in the path is exhausted: the loop
\* `for i in self.indices[h] + 1..A` from i on.
NextScan(w, tree_root, node, h, i) ==
    IF i >= A THEN Advanced(w, tree_root, None)
    ELSE LET moved == [w EXCEPT !.indices[h + 1] = i]
         IN  IF IsNone(NodeAt(tree_root, node).children[i + 1])
             THEN NextScan(moved, tree_root, node, h, i + 1)
             ELSE LET child == Append(node, i)
                      read == ReadAt(tree_root, child)
                  IN  IF Walker(w.walker, ItemOf(NodeAt(read, child)))
                      THEN LET below == advance([moved EXCEPT !.path[h + 1] = Some(child)],
                                                read, child, h + 1)
                           IN  IF IsSome(below.item) THEN below
                               ELSE NextScan(below.walk, below.root, node, h, i + 1)
                      ELSE NextScan(moved, read, node, h, i + 1)

\* Walk::advance
advance(w, tree_root, node, h) ==
    IF h = H - 1 THEN LeafScan(w, tree_root, node, h, w.indices[h + 1])
    ELSE LET first == IF IsNone(w.path[h + 1]) THEN FirstScan(w, tree_root, node, h, 0)
                      ELSE Advanced(w, tree_root, None)
         IN  IF IsNone(first.walk.path[h + 1]) THEN Advanced(first.walk, first.root, None)
             ELSE LET below == advance(first.walk, first.root,
                                       Unwrap(first.walk.path[h + 1]), h + 1)
                  IN  IF IsSome(below.item) THEN below
                      ELSE LET next == NextScan(below.walk, below.root, node, h,
                                                below.walk.indices[h + 1] + 1)
                           IN  IF IsSome(next.item) THEN next
                               ELSE Advanced([next.walk EXCEPT !.path[h + 1] = None,
                                                               !.indices[h + 1] = 0],
                                             next.root, None)

\* Walk::next
Walk_nextResult(w, tree_root) == advance(w, tree_root, <<>>, 0)

\* ------------------------------------------------------------------------
\* The eager Node and Tree of src/src/lib.rs
\*
\* Every node holds its item, recomputed inside insert and remove; the
\* empty items are an array indexed by height. Indices are moved up by one.
\* ------------------------------------------------------------------------

\* EMPTY_SUBTREES with the same item at every height.
UniformEmpties == [h \in 1..H |-> EMPTY_SUBTREE]

\* Node::new(item)
Eager_Node_new(item) == [item |-> item, children |-> [i \in 1..A |-> None]]

\* Node::compute_item
Eager_compute_item(node, height, empties) ==
    [node EXCEPT !.item = aggregate([i \in 1..A |->
                              IF IsNone(node.children[i]) THEN empties[height + 1]
                              ELSE Unwrap(node.children[i]).item])]

\* Node::insert
RECURSIVE Eager_insert(_, _, _, _, _)
Eager_insert(node, height, position, item, empties) ==
    IF height = H THEN [panic |-> FALSE, node |-> [node EXCEPT !.item = item]]
    ELSE LET loc == child_location(height, position)
             child_index == loc[1]
             child_pos == loc[2]
         IN  IF child_index >= A THEN [panic |-> TRUE, node |-> node]
             ELSE LET child == IF IsNone(node.children[child_index + 1])
                               THEN Eager_Node_new(empties[height + 1])
                               ELSE Unwrap(node.children[child_index + 1])
                      r == Eager_insert(child, height + 1, child_pos, item, empties)
                      filled == [node EXCEPT !.children[child_index + 1] = Some(r.node)]
                  IN  IF r.panic THEN [panic |-> TRUE, node |-> filled]
                      ELSE [panic |-> FALSE,
                            node |-> Eager_compute_item(filled, height, empties)]

\* Node::remove: the item of a node left without children is not
\* recomputed.
RECURSIVE Eager_remove(_, _, _, _)
Eager_remove(node, height, position, empties) ==
    IF height = H
    THEN [panic |-> FALSE, node |-> [node EXCEPT !.item = empties[1]],
          item |-> Some(node.item), has_children |-> FALSE]
    ELSE LET loc == child_location(height, position)
             child_index == loc[1]
             child_pos == loc[2]
         IN  IF child_index >= A \/ IsNone(node.children[child_index + 1])
             THEN [panic |-> TRUE, node |-> node, item |-> None, has_children |-> FALSE]
             ELSE LET r == Eager_remove(Unwrap(node.children[child_index + 1]),
                                        height + 1, child_pos, empties)
                      after == [node EXCEPT !.children[child_index + 1] =
                                   IF r.has_children THEN Some(r.node) ELSE None]
                  IN  IF r.panic
                      THEN [panic |-> TRUE,
                            node |-> [node EXCEPT !.children[child_index + 1] = Some(r.node)],
                            item |-> None, has_children |-> FALSE]
                      ELSE [panic |-> FALSE,
                            node |-> IF HasChildren(after)
                                     THEN Eager_compute_item(after, height, empties)
                                     ELSE after,
                            item |-> r.item, has_children |-> HasChildren(after)]

\* Tree::new
Eager_Tree_new(empties) == [root |-> Eager_Node_new(empties[1]), positions |-> {}]

\* Tree::insert
Eager_Tree_insert(tree, position, item, empties) ==
    LET r == Eager_insert(tree.root, 0, position, item, empties)
    IN  [panic |-> r.panic,
         tree |-> [root |-> r.node,
                   positions |-> IF r.panic THEN tree.positions
                                 ELSE tree.positions \cup {position}]]

\* Tree::remove that leaves the root of an emptied tree as it is.
Eager_Tree_removeNoReset(tree, position, empties) ==
    IF position \notin tree.positions THEN [panic |-> FALSE, tree |-> tree, value |-> None]
    ELSE LET r == Eager_remove(tree.root, 0, position, empties)
         IN  [panic |-> r.panic,
              tree |-> [root |-> r.node,
                        positions |-> IF r.panic THEN tree.positions
                                      ELSE tree.positions \ {position}],
              value |-> r.item]

\* Tree::remove
Eager_Tree_remove(tree, position, empties) ==
    IF position \notin tree.positions THEN [panic |-> FALSE, tree |-> tree, value |-> None]
    ELSE LET r == Eager_remove(tree.root, 0, position, empties)
             left == tree.positions \ {position}
         IN  [panic |-> r.panic,
              tree |-> IF r.panic THEN [root |-> r.node, positions |-> tree.positions]
                       ELSE [root |-> IF left = {} THEN [r.node EXCEPT !.item = empties[1]]
                                      ELSE r.node,
                             positions |-> left],
              value |-> r.item]

\* Tree::root
Eager_Tree_root(tree) == tree.root.item

\* ------------------------------------------------------------------------
\* The lazy Node of src/src/node.rs, with the empty items indexed by height
\*
\* Its insert and remove are those of Node above; item takes a height.
\* ------------------------------------------------------------------------

\* EMPTY_SUBTREES with a different item at every height.
EMPTY_SUBTREES == [h \in 1..H |-> <<"e" \o ToString(h - 1)>>]

\* Node::item(height), as the node it leaves behind: the children are asked
\* with the height this node was asked with. An index outside the array
\* aborts.
RECURSIVE Indexed_item(_, _, _)
Indexed_item(node, height, empties) ==
    IF IsSome(node.item) THEN [panic |-> FALSE, node |-> node]
    ELSE IF height + 1 >= Len(empties) THEN [panic |-> TRUE, node |-> node]
    ELSE LET empty == empties[height + 2]
             kids == [i \in 1..A |->
                        IF IsNone(node.children[i]) THEN None
                        ELSE Some(Indexed_item(Unwrap(node.children[i]), height, empties))]
             item_refs == [i \in 1..A |->
                        IF IsNone(kids[i]) \/ Unwrap(kids[i]).panic THEN empty
                        ELSE Unwrap(Unwrap(kids[i]).node.item)]
             has_children == \E i \in 1..A : IsSome(kids[i])
         IN  IF \E i \in 1..A : IsSome(kids[i]) /\ Unwrap(kids[i]).panic
             THEN [panic |-> TRUE, node |-> node]
             ELSE [panic |-> FALSE,
                   node |-> [item |-> IF has_children THEN Some(aggregate(item_refs))
                                      ELSE Some(empties[height + 1]),
                             children |-> [i \in 1..A |->
                                             IF IsNone(kids[i]) THEN None
                                             ELSE Some(Unwrap(kids[i]).node)]]]

\* Tree::root of src/src/tree.rs: self.root.item(0)
Indexed_Tree_root(tree_root) == Indexed_item(tree_root, 0, EMPTY_SUBTREES)

\* ------------------------------------------------------------------------
\* Tree: the state and the operations
\* ------------------------------------------------------------------------

\* The positions handed to the operations: every valid one and some beyond.
PositionInputs == 0 .. (Capacity + Beyond)

\* held: what the position held when the call was made.
Call(op, position, held, item, value, opening, panic) ==
    [op |-> op, position |-> position, held |-> held, item |-> item,
     value |-> value, opening |-> opening, panic |-> panic]

\* Tree::new
Init ==
    /\ root = Node_new
    /\ positions = {}
    /\ leaves = [p \in PositionInputs |-> None]
    /\ ret = Call("new", 0, None, None, None, None, FALSE)
    /\ panicked = FALSE
    /\ kept = None
    /\ bytes = None
    /\ parsed = None
    /\ walk = None
    /\ eager = Eager_Tree_new(UniformEmpties)

\* Tree::insert
Tree_insert(position, c) ==
    /\ ~panicked
    /\ \E r \in {Node_insert(root, 0, position, IntoItem(c))} :
           /\ root' = r.node
           /\ panicked' = r.panic
           /\ positions' = IF r.panic THEN positions ELSE positions \cup {position}
           /\ leaves' = IF r.panic THEN leaves
                        ELSE [leaves EXCEPT ![position] = Some(IntoItem(c))]
           /\ eager' = IF r.panic THEN eager
                       ELSE Eager_Tree_insert(eager, position, IntoItem(c),
                                              UniformEmpties).tree
           /\ ret' = Call("insert", position, leaves[position], Some(IntoItem(c)), None, None,
                        r.panic)
    /\ UNCHANGED caller

\* Tree::remove that leaves the position in the set.
Tree_removeResultKeepsPosition(tree_root, tree_positions, position) ==
    IF position \notin tree_positions
    THEN [panic |-> FALSE, root |-> tree_root, positions |-> tree_positions,
          value |-> None]
    ELSE LET r == Node_remove(tree_root, 0, position)
         IN  [panic |-> r.panic, root |-> r.node, positions |-> tree_positions,
              value |-> r.item]

\* Tree::remove without the look-up of the position in the set.
Tree_removeResultUnguarded(tree_root, tree_positions, position) ==
    LET r == Node_remove(tree_root, 0, position)
    IN  [panic |-> r.panic, root |-> r.node,
         positions |-> IF r.panic THEN tree_positions ELSE tree_positions \ {position},
         value |-> r.item]

\* What Tree::remove leaves behind and returns.
Tree_removeResult(tree_root, tree_positions, position) ==
    IF position \notin tree_positions
    THEN [panic |-> FALSE, root |-> tree_root, positions |-> tree_positions,
          value |-> None]
    ELSE LET r == Node_remove(tree_root, 0, position)
         IN  [panic |-> r.panic, root |-> r.node,
              positions |-> IF r.panic THEN tree_positions
                            ELSE tree_positions \ {position},
              value |-> r.item]

\* Tree::remove
Tree_remove(position) ==
    /\ ~panicked
    /\ \E r \in {Tree_removeResult(root, positions, position)} :
           /\ root' = r.root
           /\ panicked' = r.panic
           /\ positions' = r.positions
           /\ leaves' = IF r.panic THEN leaves ELSE [leaves EXCEPT ![position] = None]
           /\ eager' = IF r.panic THEN eager
                       ELSE Eager_Tree_remove(eager, position, UniformEmpties).tree
           /\ ret' = Call("remove", position, leaves[position], None, r.value, None, r.panic)
    /\ UNCHANGED caller

\* What Tree::opening leaves behind and returns.
Tree_openingResult(tree_root, tree_positions, position) ==
    IF position \notin tree_positions
    THEN [panic |-> FALSE, root |-> tree_root, opening |-> None]
    ELSE LET r == Opening_new(tree_root, position)
         IN  [panic |-> r.panic, root |-> r.node,
              opening |-> IF r.panic THEN None ELSE Some(r.opening)]

\* Tree::opening
Tree_opening(position) ==
    /\ ~panicked
    /\ \E r \in {Tree_openingResult(root, positions, position)} :
           /\ root' = r.root
           /\ panicked' = r.panic
           /\ ret' = Call("opening", position, leaves[position], None, None, r.opening,
                        r.panic)
    /\ UNCHANGED <<positions, leaves, eager>>
    /\ UNCHANGED caller

\* Tree::root that computes the root without storing any item it computed.
Tree_rootForgets ==
    /\ ~panicked
    /\ root' = root
    /\ ret' = Call("root", 0, None, None, Some(ItemOf(root)), None, FALSE)
    /\ UNCHANGED <<positions, leaves, eager, panicked>>
    /\ UNCHANGED caller

\* Tree::root
Tree_root ==
    /\ ~panicked
    /\ root' = Node_item(root)
    /\ ret' = Call("root", 0, None, None, Some(ItemOf(root)), None, FALSE)
    /\ UNCHANGED <<positions, leaves, eager, panicked>>
    /\ UNCHANGED caller

\* What smallest_subtree returns, the number of times its loop went round
\* and the tree it leaves behind.
Smallest(item, height, steps, underflow, tree_root) ==
    [item |-> item, height |-> height, steps |-> steps, underflow |-> underflow,
     root |-> tree_root]

RECURSIVE smallest_subtreeLoop(_, _, _, _)

\* The loop of smallest_subtree that goes on below height 1.
smallest_subtreeLoopToLeaf(tree_root, smallest_node, height, steps) ==
    LET node == NodeAt(tree_root, smallest_node)
        present == {i \in 1..A : IsSome(node.children[i])}
    IN  IF present = {} THEN Smallest(None, 0, steps, FALSE, tree_root)
        ELSE IF Cardinality(present) = 1 /\ height > 0
        THEN smallest_subtreeLoop(tree_root,
                                  Append(smallest_node, (CHOOSE i \in present : TRUE) - 1),
                                  height - 1, steps + 1)
        ELSE LET read == ReadAt(tree_root, smallest_node)
             IN  Smallest(Some(ItemOf(NodeAt(read, smallest_node))), height, steps, FALSE, read)

\* The loop of smallest_subtree that never leaves the root.
smallest_subtreeLoopNoDescent(tree_root, smallest_node, height, steps) ==
    LET node == NodeAt(tree_root, smallest_node)
        present == {i \in 1..A : IsSome(node.children[i])}
    IN  IF present = {} THEN Smallest(None, 0, steps, FALSE, tree_root)
        ELSE LET read == ReadAt(tree_root, smallest_node)
             IN  Smallest(Some(ItemOf(NodeAt(read, smallest_node))), height, steps, FALSE, read)

\* The loop of Tree::smallest_subtree, entered with smallest_node and
\* height; `height -= 1` below 0 is an underflow.
smallest_subtreeLoop(tree_root, smallest_node, height, steps) ==
    LET node == NodeAt(tree_root, smallest_node)
        present == {i \in 1..A : IsSome(node.children[i])}
        first == CHOOSE i \in present : \A j \in present : i <= j
    IN  IF present = {} THEN Smallest(None, 0, steps, FALSE, tree_root)
        ELSE IF Cardinality(present) = 1 /\ height > 1
        THEN IF height - 1 < 0 THEN Smallest(None, 0, steps, TRUE, tree_root)
             ELSE smallest_subtreeLoop(tree_root, Append(smallest_node, first - 1),
                                       height - 1, steps + 1)
        ELSE LET read == ReadAt(tree_root, smallest_node)
             IN  Smallest(Some(ItemOf(NodeAt(read, smallest_node))), height, steps, FALSE, read)

\* Tree::smallest_subtree
Tree_smallest_subtree ==
    /\ ~panicked
    /\ \E r \in {smallest_subtreeLoop(root, <<>>, H, 0)} :
           /\ root' = r.root
           /\ panicked' = r.underflow
           /\ ret' = Call("smallest_subtree", 0, None, None,
                          Some([item |-> r.item, height |-> r.height, steps |-> r.steps]),
                          None, r.underflow)
    /\ UNCHANGED <<positions, leaves, eager>>
    /\ UNCHANGED caller

\* Tree == Tree, as derive(PartialEq) makes it: the roots are compared
\* field by field, the cached item of every node included, then the sets.
Tree_eq(a, b) == a.root = b.root /\ a.positions = b.positions

\* Tree::clone
Tree_clone(tree_root, tree_positions) == [root |-> tree_root, positions |-> tree_positions]

\* Tree::contains, Tree::len, Tree::is_empty
contains(position) == position \in positions

len == Cardinality(positions)

is_empty == len = 0

Next ==
    \/ \E position \in PositionInputs, c \in Letters : Tree_insert(position, c)
    \/ \E position \in PositionInputs : Tree_remove(position)
    \/ \E position \in PositionInputs : Tree_opening(position)
    \/ Tree_root

Spec == Init /\ [][Next]_vars

\* let opening = tree.opening(pos).unwrap(): the caller keeps the Opening
\* the last call returned, together with what it was made for.
Caller_keep ==
    /\ ~panicked
    /\ ret.op = "opening"
    /\ IsSome(ret.opening)
    /\ kept' = Some([position |-> ret.position, item |-> Unwrap(ret.held),
                     opening |-> Unwrap(ret.opening)])
    /\ UNCHANGED <<root, positions, leaves, eager, ret, panicked, bytes, parsed, walk>>

\* Tree::insert while the caller holds an Opening; the call is not recorded.
Later_insert(position, c) ==
    /\ ~panicked
    /\ IsSome(kept)
    /\ \E r \in {Node_insert(root, 0, position, IntoItem(c))} :
           /\ root' = r.node
           /\ panicked' = r.panic
           /\ positions' = IF r.panic THEN positions ELSE positions \cup {position}
           /\ leaves' = IF r.panic THEN leaves
                        ELSE [leaves EXCEPT ![position] = Some(IntoItem(c))]
           /\ eager' = IF r.panic THEN eager
                       ELSE Eager_Tree_insert(eager, position, IntoItem(c),
                                              UniformEmpties).tree
    /\ UNCHANGED <<ret, kept, bytes, parsed, walk>>

\* Tree::remove while the caller holds an Opening; the call is not recorded.
Later_remove(position) ==
    /\ ~panicked
    /\ IsSome(kept)
    /\ \E r \in {Tree_removeResult(root, positions, position)} :
           /\ root' = r.root
           /\ panicked' = r.panic
           /\ positions' = r.positions
           /\ leaves' = IF r.panic THEN leaves ELSE [leaves EXCEPT ![position] = None]
           /\ eager' = IF r.panic THEN eager
                       ELSE Eager_Tree_remove(eager, position, UniformEmpties).tree
    /\ UNCHANGED <<ret, kept, bytes, parsed, walk>>

\* The tree is built, the caller keeps an Opening, the tree is changed on.
NextKeep ==
    \/ kept = None /\ Next
    \/ kept = None /\ Caller_keep
    \/ \E position \in PositionInputs, c \in Letters : Later_insert(position, c)
    \/ \E position \in PositionInputs : Later_remove(position)

SpecKeep == Init /\ [][NextKeep]_vars

\* let serialized = opening.to_var_bytes()
Opening_to_var_bytes ==
    /\ IsSome(kept)
    /\ bytes = None
    /\ bytes' = Some(to_var_bytes(Unwrap(kept).opening))
    /\ UNCHANGED <<root, positions, leaves, eager, ret, panicked, kept, parsed, walk>>

\* The bytes an altered buffer gets.
TamperBytes == {0, 1, 66, 127}

\* The buffers handed to from_slice: the serialized Opening, the buffers
\* that differ from it in one byte, the ones one byte shorter and longer,
\* and the empty one.
BufferInputs(buf) ==
    {buf, <<>>, SubSeq(buf, 1, Len(buf) - 1), Append(buf, 0)}
        \cup {[buf EXCEPT ![i] = b] : i \in 1..Len(buf), b \in TamperBytes}

\* Opening::from_slice(&buf)
Opening_from_slice(buf) ==
    /\ IsSome(bytes)
    /\ parsed = None
    /\ parsed' = Some([input |-> buf, result |-> from_slice(buf)])
    /\ UNCHANGED <<root, positions, leaves, eager, ret, panicked, kept, bytes, walk>>

\* The tree is built, the caller keeps an Opening, serializes it and
\* deserializes a buffer.
NextBytes ==
    \/ kept = None /\ Next
    \/ kept = None /\ Caller_keep
    \/ Opening_to_var_bytes
    \/ IsSome(bytes) /\ \E buf \in BufferInputs(Unwrap(bytes)) : Opening_from_slice(buf)

SpecBytes == Init /\ [][NextBytes]_vars

\* Tree::walk; log is the history of what next() returned.
Tree_walk(walker) ==
    /\ ~panicked
    /\ walk = None
    /\ walk' = Some([state |-> Walk_new(walker), log |-> <<>>])
    /\ UNCHANGED <<root, positions, leaves, eager, ret, panicked, kept, bytes, parsed>>

\* Iterator::next of the Walk
Walk_next ==
    /\ IsSome(walk)
    /\ Len(Unwrap(walk).log) < MaxCalls
    /\ \E r \in {Walk_nextResult(Unwrap(walk).state, root)} :
           /\ root' = r.root
           /\ walk' = Some([state |-> r.walk, log |-> Append(Unwrap(walk).log, r.item)])
    /\ UNCHANGED <<positions, leaves, eager, ret, panicked, kept, bytes, parsed>>

\* The tree is built, then borrowed by a Walk that is iterated.
NextWalk ==
    \/ walk = None /\ Next
    \/ \E walker \in Walkers : Tree_walk(walker)
    \/ Walk_next

SpecWalk == Init /\ [][NextWalk]_vars

\* The Walk goes out of scope and the borrow of the tree ends.
Walk_drop ==
    /\ IsSome(walk)
    /\ walk' = None
    /\ UNCHANGED <<root, positions, leaves, eager, ret, panicked, kept, bytes, parsed>>

\* All the operations of the tree: the tree is changed and read while no
\* Walk borrows it, and a Walk is made, iterated and dropped.
NextReads ==
    \/ walk = None /\ Next
    \/ walk = None /\ Tree_smallest_subtree
    \/ \E walker \in Walkers : Tree_walk(walker)
    \/ Walk_next
    \/ Walk_drop

SpecReads == Init /\ [][NextReads]_vars

\* The heights and arities <<H, A>> the trees of the repository have.
Instantiations == {<<2, 2>>, <<3, 2>>, <<4, 2>>, <<17, 4>>, <<32, 2>>, <<32, 4>>}

\* The overflow checks of the build: on, an overflowing multiplication
\* aborts; off, it wraps.
OverflowChecks == {TRUE, FALSE}

\* Tree::capacity of a Tree<T, height, arity>; it does not depend on what
\* the tree holds.
Tree_capacity(height, arity, checks) ==
    /\ ~panicked
    /\ \E r \in {capacity_u64(arity, height)} :
           /\ panicked' = (r.overflow /\ checks)
           /\ ret' = Call("capacity", 0, None, None,
                          Some([height |-> height, arity |-> arity, limbs |-> r.limbs]),
                          None, r.overflow /\ checks)
    /\ UNCHANGED <<root, positions, leaves, eager>>
    /\ UNCHANGED caller

\* The tree is used and asked for its capacity.
NextCapacity ==
    \/ Next
    \/ \E inst \in Instantiations, checks \in OverflowChecks :
           Tree_capacity(inst[1], inst[2], checks)

SpecCapacity == Init /\ [][NextCapacity]_vars

\* ------------------------------------------------------------------------
\* The Poseidon Item
\*
\* An Item pairs a hash, a scalar, with data that is itself aggregated.
\* The Poseidon hash is a function of the sequence of scalars it is given
\* that tells any two sequences apart; the data is aggregated as the items
\* of the tree are.
\* ------------------------------------------------------------------------

\* BlsScalar::zero()
ScalarZero == 0

\* The scalars the leaves carry as hashes.
Scalars == {ScalarZero, 1, 2}

\* Hash::digest(Domain::Merkle4, &level_hashes)[0], poseidon_hash(&level_hashes)
poseidon_hash(level_hashes) == <<"poseidon">> \o level_hashes

\* Item::new
Item_new(hash, data) == [hash |-> hash, data |-> data]

RECURSIVE Item_grab(_, _, _)

\* The loop of Item::aggregate: "grab hashes and data" of the items from
\* the i-th on.
Item_grab(items, i, level) ==
    IF i > Len(items) THEN level
    ELSE Item_grab(items, i + 1,
                   [hashes |-> [level.hashes EXCEPT ![i] = items[i].hash],
                    data |-> [level.data EXCEPT ![i] = items[i].data]])

\* Item::aggregate that hashes the scalars of the items that carry data.
Item_aggregateHashesOccupied(items) ==
    LET level == Item_grab(items, 1,
                           [hashes |-> [i \in 1..A |-> ScalarZero],
                            data |-> [i \in 1..A |-> EMPTY_SUBTREE]])
    IN  Item_new(poseidon_hash([i \in 1..A |->
                                  IF level.data[i] = EMPTY_SUBTREE THEN ScalarZero
                                  ELSE level.hashes[i]]),
                 aggregate(level.data))

\* impl Aggregate for Item<T>: aggregate
Item_aggregate(items) ==
    LET level == Item_grab(items, 1,
                           [hashes |-> [i \in 1..A |-> ScalarZero],
                            data |-> [i \in 1..A |-> EMPTY_SUBTREE]])
    IN  Item_new(poseidon_hash(level.hashes), aggregate(level.data))

\* The items handed to Item::aggregate: a hash with no data or with the
\* data of a leaf.
ItemInputs ==
    {Item_new(hash, data) : hash \in Scalars,
                            data \in {EMPTY_SUBTREE, IntoItem("A"), IntoItem("B")}}

\* Item::aggregate is called on A items.
Poseidon_aggregate(items) ==
    /\ ~panicked
    /\ ret' = Call("aggregate", 0, None, Some(items), Some(Item_aggregate(items)), None, FALSE)
    /\ UNCHANGED <<root, positions, leaves, eager, panicked>>
    /\ UNCHANGED caller

\* The tree is used and items are aggregated.
NextPoseidon ==
    \/ Next
    \/ \E items \in [1..A -> ItemInputs] : Poseidon_aggregate(items)

SpecPoseidon == Init /\ [][NextPoseidon]_vars

\* ------------------------------------------------------------------------
\* The opening gadget of src/src/poseidon/zk.rs
\*
\* The circuit sees the hash of every item: the items of the tree stand
\* for these hashes and `aggregate` for the hash of a level. A witness is
\* the value appended for it; a constraint is the equation it asserts.
\* ------------------------------------------------------------------------

\* The position bits the sum constraint names: pos_bits[h][0] to
\* pos_bits[h][3].
SummedBits == 4

\* gate_mul of a position bit and a hash
gate_mul(bit, hash) == IF bit = 0 THEN EMPTY_SUBTREE ELSE hash

\* The needle that enters level h: the leaf at the lowest level, the hash
\* of the level below elsewhere.
needle_at(opening, leaf, h) == IF h = H THEN leaf ELSE aggregate(opening.branch[h + 1])

\* Opening::gadget: whether building the circuit aborts, the position bits
\* appended, whether the constraints hold of the witnesses appended, and
\* the witness returned.
gadget(opening, leaf) ==
    LET pos_bits == [h \in 1..H |-> [i \in 1..A |->
                        IF i - 1 = opening.positions[h] THEN 1 ELSE 0]]
        level_witnesses == opening.branch
        boolean == \A h \in 1..H : \A i \in 1..A : pos_bits[h][i] \in {0, 1}
        needle_matches ==
            \A h \in 1..H : \A i \in 1..A :
                gate_mul(pos_bits[h][i], level_witnesses[h][i])
                    = gate_mul(pos_bits[h][i], needle_at(opening, leaf, h))
    IN  IF SummedBits > A
        THEN [panic |-> TRUE, pos_bits |-> pos_bits, satisfied |-> FALSE, needle |-> leaf]
        ELSE [panic |-> FALSE,
              pos_bits |-> pos_bits,
              satisfied |-> /\ boolean
                            /\ \A h \in 1..H :
                                  pos_bits[h][1] + pos_bits[h][2] + pos_bits[h][3]
                                      + pos_bits[h][4] = 1
                            /\ needle_matches,
              needle |-> aggregate(level_witnesses[1])]

\* ------------------------------------------------------------------------
\* TreePosition of src/src/position.rs
\*
\* indices[h] of the source is indices[h + 1] here.
\* ------------------------------------------------------------------------

RECURSIVE From_loop(_, _, _)

\* The loop of From<int> that fills the indices from the first one on.
From_loopAscending(n, i, indices) ==
    IF i < 0 THEN indices
    ELSE From_loop(n \div A, i - 1, [indices EXCEPT ![H - i] = n % A])

\* The loop `for i in (0..H).rev()` of From<int>, from i down.
From_loop(n, i, indices) ==
    IF i < 0 THEN indices
    ELSE From_loop(n \div A, i - 1, [indices EXCEPT ![i + 1] = n % A])

\* TreePosition::from(n)
TreePosition_from(n) == [indices |-> From_loop(n, H - 1, [h \in 1..H |-> 0])]

\* The loop `while h < H` of max(), from h on.
RECURSIVE max_loop(_, _)
max_loop(h, indices) ==
    IF h >= H THEN indices ELSE max_loop(h + 1, [indices EXCEPT ![h + 1] = A - 1])

\* TreePosition::MAX
TreePosition_MAX == [indices |-> max_loop(0, [h \in 1..H |-> 0])]

\* TreePosition::MIN
TreePosition_MIN == [indices |-> [h \in 1..H |-> 0]]

\* The integers handed to TreePosition::from: every position of the tree,
\* and as many again and more beyond its capacity.
FromInputs == 0..(2 * Capacity + Beyond)

\* TreePosition::from(n) is called.
TreePosition_from_call(n) ==
    /\ ~panicked
    /\ ret' = Call("from", n, None, None, Some(TreePosition_from(n)), None, FALSE)
    /\ UNCHANGED <<root, positions, leaves, eager, panicked>>
    /\ UNCHANGED caller

\* The tree is used and integers are made into positions.
NextPosition ==
    \/ Next
    \/ \E n \in FromInputs : TreePosition_from_call(n)

SpecPosition == Init /\ [][NextPosition]_vars

\* ------------------------------------------------------------------------
\* Reference values over the leaf map
\* ------------------------------------------------------------------------

\* Some leaf of the subtree at `depth` whose first position is `base` is
\* occupied in the leaf map lv.
OccupiedBelow(lv, depth, base) ==
    \E p \in base .. (base + Pow(A, H - depth) - 1) : IsSome(lv[p])

\* The item of the subtree at `depth` whose first position is `base`.
RECURSIVE RefItem(_, _, _)
RefItem(lv, depth, base) ==
    IF depth = H THEN Unwrap(lv[base])
    ELSE aggregate([i \in 1..A |->
            LET child_base == base + (i - 1) * Pow(A, H - depth - 1)
            IN  IF OccupiedBelow(lv, depth + 1, child_base)
                THEN RefItem(lv, depth + 1, child_base)
                ELSE EMPTY_SUBTREE])

RefRootOf(lv) ==
    IF OccupiedBelow(lv, 0, 0) THEN RefItem(lv, 0, 0) ELSE EMPTY_SUBTREE

RefRoot == RefRootOf(leaves)

\* The item stored in the leaf node of `position`, None when a node on the
\* way to it is absent. The way is the base-A digits of the position.
RECURSIVE StoredAt(_, _, _)
StoredAt(node, depth, position) ==
    IF depth = H THEN node.item
    ELSE LET digit == (position \div Pow(A, H - depth - 1)) % A
         IN  IF IsNone(node.children[digit + 1]) THEN None
             ELSE StoredAt(Unwrap(node.children[digit + 1]), depth + 1, position)

\* The items a caller may hand to verify.
Candidates == {IntoItem(c) : c \in Letters} \cup {EMPTY_SUBTREE, ItemOf(root)}

\* ------------------------------------------------------------------------
\* Claims
\* ------------------------------------------------------------------------

\* C1: after any sequence of inserts and removes, root() is the reference
\* value computed recursively over the current leaf map, with EMPTY_SUBTREE
\* for every subtree without an occupied leaf and for the empty tree.
C1_RootIsReference ==
    ~panicked =>
        /\ ItemOf(root) = RefRoot
        /\ (ret.op = "root" => ret.value = Some(RefRoot))

C1_Witness ==
    /\ ret.op = "root"
    /\ ret.value = Some(RefRoot)
    /\ Cardinality(positions) >= 2
    /\ Cardinality(positions) < Capacity
    /\ 0 \notin positions

\* C2: every occupied position has an opening, and the opening verifies the
\* value the position holds; right after insert(p, x), contains(p) is true
\* and opening(p) verifies x.
C2_OpeningVerifies ==
    ~panicked =>
        /\ \A p \in PositionInputs :
              IsSome(leaves[p]) =>
                  LET r == Tree_openingResult(root, positions, p)
                  IN  /\ ~r.panic
                      /\ IsSome(r.opening)
                      /\ Verifies(Unwrap(r.opening), Unwrap(leaves[p]))
        /\ (ret.op = "insert" =>
              /\ contains(ret.position)
              /\ LET r == Tree_openingResult(root, positions, ret.position)
                 IN  IsSome(r.opening) /\ Verifies(Unwrap(r.opening), Unwrap(ret.item)))
        /\ (ret.op = "opening" /\ IsSome(ret.held) =>
              IsSome(ret.opening) /\ Verifies(Unwrap(ret.opening), Unwrap(ret.held)))

C2_Witness ==
    /\ ret.op = "opening"
    /\ IsSome(ret.held)
    /\ IsSome(ret.opening)
    /\ Verifies(Unwrap(ret.opening), Unwrap(ret.held))
    /\ Cardinality(positions) >= 2

\* C3: the opening of an occupied position verifies no candidate other than
\* the value the position holds.
C3_OnlyStoredValueVerifies ==
    ~panicked =>
        /\ \A p \in PositionInputs : \A y \in Candidates :
              (IsSome(leaves[p]) /\ y # Unwrap(leaves[p])) =>
                  LET r == Tree_openingResult(root, positions, p)
                  IN  /\ IsSome(r.opening)
                      /\ ~verify(Unwrap(r.opening), y).panic
                      /\ ~verify(Unwrap(r.opening), y).ok
        /\ \A y \in Candidates :
              (ret.op = "opening" /\ IsSome(ret.held) /\ y # Unwrap(ret.held)) =>
                  /\ IsSome(ret.opening)
                  /\ ~Verifies(Unwrap(ret.opening), y)

C3_Witness ==
    /\ ret.op = "opening"
    /\ IsSome(ret.held)
    /\ IsSome(ret.opening)
    /\ \E y \in Candidates :
          /\ y # Unwrap(ret.held)
          /\ y # EMPTY_SUBTREE
          /\ ~Verifies(Unwrap(ret.opening), y)

\* C4: remove(p) at an occupied position returns the value last inserted at
\* p; afterwards contains(p) is false and another remove(p) returns None.
C4_RemoveReturnsInserted ==
    (ret.op = "remove" /\ IsSome(ret.held)) =>
        /\ ~ret.panic
        /\ ret.value = ret.held
        /\ ~contains(ret.position)
        /\ LET again == Tree_removeResult(root, positions, ret.position)
           IN  ~again.panic /\ IsNone(again.value)

C4_Witness ==
    /\ ret.op = "remove"
    /\ IsSome(ret.held)
    /\ ret.value = ret.held
    /\ ~contains(ret.position)
    /\ positions # {}

\* C5: insert(p, y) at an occupied position leaves len() and the set of
\* occupied positions unchanged and replaces the value: remove(p) would
\* return y, opening(p) verifies y, root() is the root of the leaf map with
\* y at p.
C5_OverwriteReplacesValue ==
    [][(ret'.op = "insert" /\ IsSome(leaves[ret'.position])) =>
          /\ ~ret'.panic
          /\ positions' = positions
          /\ Cardinality(positions') = Cardinality(positions)
          /\ Tree_removeResult(root', positions', ret'.position).value = ret'.item
          /\ LET r == Tree_openingResult(root', positions', ret'.position)
             IN  IsSome(r.opening) /\ Verifies(Unwrap(r.opening), Unwrap(ret'.item))
          /\ ItemOf(root') = RefRootOf([leaves EXCEPT ![ret'.position] = ret'.item])
      ]_vars

C5_Witness ==
    /\ ret.op = "insert"
    /\ ~ret.panic
    /\ IsSome(ret.held)
    /\ ret.held # ret.item
    /\ StoredAt(root, 0, ret.position) = ret.item
    /\ Cardinality(positions) >= 2

\* C6: root() is EMPTY_SUBTREE on a new tree and whenever no position is
\* occupied, in particular after the last occupied position was removed.
C6_EmptyTreeRoot ==
    (~panicked /\ positions = {}) =>
        /\ ItemOf(root) = EMPTY_SUBTREE
        /\ (ret.op = "root" => ret.value = Some(EMPTY_SUBTREE))

C6_Witness ==
    /\ ret.op = "remove"
    /\ IsSome(ret.value)
    /\ positions = {}
    /\ ItemOf(root) = EMPTY_SUBTREE

\* C7: contains(p) is true exactly for the positions inserted and not
\* removed since, len() is their number, each of them is below the
\* capacity, and is_empty() is true exactly when len() is 0.
C7_PositionsBookkeeping ==
    ~panicked =>
        /\ \A p \in PositionInputs : contains(p) <=> IsSome(leaves[p])
        /\ len = Cardinality({p \in PositionInputs : IsSome(leaves[p])})
        /\ \A p \in positions : p < Capacity
        /\ len <= Capacity
        /\ is_empty <=> (\A p \in PositionInputs : IsNone(leaves[p]))

C7_Witness ==
    /\ ret.op = "remove"
    /\ IsSome(ret.held)
    /\ ~contains(ret.position)
    /\ len = 2
    /\ ~is_empty

\* C8: insert at a position >= capacity aborts; the position is neither
\* wrapped nor clamped into range (no leaf changes) and it is not added to
\* the set of occupied positions.
C8_InsertOutOfBoundsPanics ==
    (ret.op = "insert" /\ ret.position >= Capacity) =>
        /\ ret.panic
        /\ panicked
        /\ ret.position \notin positions
        /\ \A p \in positions : p < Capacity
        /\ \A p \in 0 .. (Capacity - 1) : StoredAt(root, 0, p) = leaves[p]

C8_Witness ==
    /\ ret.op = "insert"
    /\ ret.position >= Capacity
    /\ panicked
    /\ positions # {}

\* C9: remove(p) and opening(p) at an unoccupied position return None
\* without aborting and leave the tree as it was: the occupied positions,
\* the stored values, the present nodes and root().
C9_AbsenceIsNotAnError ==
    [][((ret'.op = "remove" \/ ret'.op = "opening") /\ IsNone(leaves[ret'.position])) =>
          /\ ~ret'.panic
          /\ ~panicked'
          /\ IsNone(ret'.value)
          /\ IsNone(ret'.opening)
          /\ positions' = positions
          /\ root' = root
          /\ \A p \in 0 .. (Capacity - 1) : StoredAt(root', 0, p) = StoredAt(root, 0, p)
          /\ ItemOf(root') = ItemOf(root)
      ]_vars

C9_Witness ==
    /\ ret.op \in {"remove", "opening"}
    /\ ret.position < Capacity
    /\ IsNone(ret.held)
    /\ IsNone(ret.value)
    /\ IsNone(ret.opening)
    /\ ~panicked
    /\ positions # {}

\* C10 as stated: remove at a position >= capacity aborts instead of
\* returning a result.
C10_RemoveOutOfBoundsAborts ==
    (ret.op = "remove" /\ ret.position >= Capacity) => ret.panic

\* C10 as amended: remove at a position >= capacity returns None without
\* aborting and leaves the tree as it was; such a position is never occupied.
C10_RemoveOutOfBoundsReturnsNone ==
    [][(ret'.op = "remove" /\ ret'.position >= Capacity) =>
          /\ ~contains(ret'.position)
          /\ ~ret'.panic
          /\ ~panicked'
          /\ IsNone(ret'.value)
          /\ positions' = positions
          /\ root' = root
      ]_vars

C10_Witness ==
    /\ ret.op = "remove"
    /\ ret.position >= Capacity
    /\ IsNone(ret.value)
    /\ ~panicked
    /\ positions # {}

\* The item the reference gives the i-th child (1-based) of the node at
\* `depth` on the way to `position`.
RefChildItem(lv, depth, position, i) ==
    LET span == Pow(A, H - depth)
        base == (position \div span) * span
        child_base == base + (i - 1) * Pow(A, H - depth - 1)
    IN  IF depth + 1 = H THEN (IF IsSome(lv[child_base]) THEN Unwrap(lv[child_base])
                               ELSE EMPTY_SUBTREE)
        ELSE IF OccupiedBelow(lv, depth + 1, child_base)
             THEN RefItem(lv, depth + 1, child_base)
             ELSE EMPTY_SUBTREE

\* The opening o of position p holds the root and the rows of the leaf map.
OpeningMatchesLeafMap(o, p) ==
    /\ o.root = RefRoot
    /\ o.root = ItemOf(root)
    /\ \A h \in 0 .. (H - 1) : \A i \in 1..A :
          o.branch[h + 1][i] = RefChildItem(leaves, h, p, i)
    /\ o.positions[H] < A
    /\ Some(o.branch[H][o.positions[H] + 1]) = leaves[p]

\* C11: the opening of an occupied position holds the tree's root at the
\* time of the call and, for every level h, the full row of the A child
\* items of the depth-h node on the way to the position, EMPTY_SUBTREE for
\* the absent children; branch[H-1][positions[H-1]] is the stored leaf.
C11_OpeningHoldsRows ==
    ~panicked =>
        /\ \A p \in PositionInputs :
              IsSome(leaves[p]) =>
                  LET r == Tree_openingResult(root, positions, p)
                  IN  IsSome(r.opening) /\ OpeningMatchesLeafMap(Unwrap(r.opening), p)
        /\ (ret.op = "opening" /\ IsSome(ret.held) =>
              IsSome(ret.opening) /\ OpeningMatchesLeafMap(Unwrap(ret.opening), ret.position))

C11_Witness ==
    /\ ret.op = "opening"
    /\ IsSome(ret.opening)
    /\ OpeningMatchesLeafMap(Unwrap(ret.opening), ret.position)
    /\ \E i \in 1..A : Unwrap(ret.opening).branch[1][i] = EMPTY_SUBTREE
    /\ \E i \in 1..A : Len(Unwrap(ret.opening).branch[1][i]) = 2
    /\ Unwrap(ret.opening).branch[1] # Unwrap(ret.opening).branch[H]

\* The base-A digits of p, the most significant first.
Digit(p, h) == (p \div Pow(A, H - 1 - h)) % A

RECURSIVE DigitSum(_, _)
DigitSum(indices, h) ==
    IF h = H THEN 0 ELSE indices[h + 1] * Pow(A, H - 1 - h) + DigitSum(indices, h + 1)

\* C12: the opening of position p < A^H records at level h the index
\* (p div A^(H-1-h)) mod A; every index is < A and the indices weighted by
\* A^(H-1-h) sum to p.
C12_PositionsAreDigits ==
    ~panicked =>
        /\ \A p \in PositionInputs :
              IsSome(leaves[p]) =>
                  LET r == Tree_openingResult(root, positions, p)
                  IN  /\ IsSome(r.opening)
                      /\ \A h \in 0 .. (H - 1) :
                            /\ Unwrap(r.opening).positions[h + 1] = Digit(p, h)
                            /\ Unwrap(r.opening).positions[h + 1] < A
                      /\ DigitSum(Unwrap(r.opening).positions, 0) = p
        /\ (ret.op = "opening" /\ IsSome(ret.opening) =>
              /\ \A h \in 0 .. (H - 1) :
                    Unwrap(ret.opening).positions[h + 1] = Digit(ret.position, h)
              /\ DigitSum(Unwrap(ret.opening).positions, 0) = ret.position)

C12_Witness ==
    /\ ret.op = "opening"
    /\ IsSome(ret.opening)
    /\ ret.position = 2
    /\ Unwrap(ret.opening).positions = <<1, 0>>

C14_RoundTrip ==
    /\ IsSome(kept) =>
          LET o == Unwrap(kept).opening
              back == from_slice(to_var_bytes(o))
          IN  /\ back.ok
              /\ Unwrap(back.value) = o
              /\ Verifies(o, Unwrap(kept).item)
              /\ Verifies(Unwrap(back.value), Unwrap(kept).item)
    /\ (IsSome(parsed) /\ Unwrap(parsed).input = Unwrap(bytes)) =>
          /\ Unwrap(parsed).result.ok
          /\ Unwrap(Unwrap(parsed).result.value) = Unwrap(kept).opening
          /\ Verifies(Unwrap(Unwrap(parsed).result.value), Unwrap(kept).item)

C14_Witness ==
    /\ IsSome(parsed)
    /\ Unwrap(parsed).input = Unwrap(bytes)
    /\ Unwrap(parsed).result.ok
    /\ Unwrap(Unwrap(parsed).result.value).positions = <<1, 1>>
    /\ Len(Unwrap(Unwrap(parsed).result.value).root) = 3

\* C15: to_var_bytes emits exactly (1 + H*A)*S + H*4 bytes: the root, then
\* for each level 0..H-1 in order its A siblings in order, then the H
\* indices as 4-byte unsigned integers.
C15_Layout ==
    IsSome(bytes) =>
        LET b == Unwrap(bytes)
            o == Unwrap(kept).opening
        IN  /\ Len(b) = (1 + H * A) * T_SIZE + H * 4
            /\ \A n \in 1..Len(b) : b[n] \in 0..255
            /\ SubSeq(b, 1, T_SIZE) = Item_to_bytes(o.root)
            /\ \A h \in 0 .. (H - 1) : \A i \in 0 .. (A - 1) :
                  SubSeq(b, (1 + h * A + i) * T_SIZE + 1, (2 + h * A + i) * T_SIZE)
                      = Item_to_bytes(o.branch[h + 1][i + 1])
            /\ \A h \in 0 .. (H - 1) :
                  LET at == (1 + H * A) * T_SIZE + h * 4
                  IN  b[at + 1] + 256 * b[at + 2] + 65536 * b[at + 3] + 16777216 * b[at + 4]
                          = o.positions[h + 1]

C15_Witness ==
    /\ IsSome(bytes)
    /\ Len(Unwrap(bytes)) = 33
    /\ Unwrap(kept).opening.positions = <<1, 0>>
    /\ Len(Unwrap(kept).opening.root) = 2

\* Some item block of a buffer of the right length does not decode.
SomeItemUndecodable(buf) ==
    \E k \in 0 .. (H * A) : ~Item_from_bytes(SubSeq(buf, k * T_SIZE + 1, (k + 1) * T_SIZE)).ok

\* C16: from_slice on a buffer whose length is not (1 + H*A)*S + H*4
\* returns BadLength with the found and the expected length; on a buffer of
\* that length a root or sibling that fails to decode makes it return an
\* error, never an Opening.
C16_FromSliceErrors ==
    IsSome(parsed) =>
        LET b == Unwrap(parsed).input
            r == Unwrap(parsed).result
            expected == (1 + H * A) * T_SIZE + H * 4
        IN  /\ Len(b) # expected =>
                  /\ ~r.ok
                  /\ r.value = None
                  /\ Unwrap(r.error) = BadLength(Len(b), expected)
            /\ (Len(b) = expected /\ SomeItemUndecodable(b)) =>
                  /\ ~r.ok
                  /\ r.value = None
                  /\ IsSome(r.error)

C16_Witness ==
    /\ IsSome(parsed)
    /\ Len(Unwrap(parsed).input) = expected_len
    /\ Item_from_bytes(ItemBlock(Unwrap(parsed).input, 0)).ok
    /\ SomeItemUndecodable(Unwrap(parsed).input)
    /\ ~Unwrap(parsed).result.ok
    /\ Unwrap(Unwrap(parsed).result.error).kind = "InvalidData"

\* What the next() calls of the Walk have returned so far.
Log == Unwrap(walk).log

\* C17: the leaves the successive next() calls of one Walk return come in
\* strictly ascending position order.
C17_AscendingOverAllCalls ==
    IsSome(walk) =>
        \A i \in 1..Len(Log) : \A j \in 1..Len(Log) :
            (i < j /\ IsSome(Log[i]) /\ IsSome(Log[j]))
                => Unwrap(Log[i]).position < Unwrap(Log[j]).position

\* The aggregate item of the ancestor at `depth` of the leaf at `position`.
RefAncestorItem(lv, depth, position) ==
    RefItem(lv, depth, (position \div Pow(A, H - depth)) * Pow(A, H - depth))

C19_AtMostLenBeforeNone ==
    IsSome(walk) =>
        /\ \A n \in 1..Len(Log) : (\A m \in 1..n : IsSome(Log[m])) => n <= len
        /\ (is_empty /\ Len(Log) >= 1) => Log[1] = None

C19_Witness ==
    /\ IsSome(walk)
    /\ len = Capacity
    /\ Len(Log) = Capacity + 1
    /\ \A m \in 1..Capacity : IsSome(Log[m])
    /\ Log[Capacity + 1] = None

\* C20: once next() has returned None on a Walk, every later next() on
\* that Walk returns None.
C20_NoneStaysNone ==
    IsSome(walk) =>
        \A i \in 1..Len(Log) : \A j \in 1..Len(Log) :
            (i < j /\ Log[i] = None) => Log[j] = None

\* The occupied positions of the leaf map.
Occupied == {p \in PositionInputs : IsSome(leaves[p])}

\* All occupied positions lie in one aligned block of A^h positions.
InOneBlock(h) == \A p \in Occupied : \A q \in Occupied : p \div Pow(A, h) = q \div Pow(A, h)

\* The least height >= 1 whose aligned block holds every occupied position.
LeastBlockHeight == CHOOSE h \in 1..H : InOneBlock(h) /\ \A g \in 1 .. (h - 1) : ~InOneBlock(g)

\* The item of the aligned block of height h that holds position p.
RefBlockItem(h, p) == RefItem(leaves, H - h, (p \div Pow(A, h)) * Pow(A, h))

\* The result is the least block that holds every occupied position.
IsLeastBlock(item, height) ==
    /\ IsSome(item)
    /\ height \in 1..H
    /\ height = LeastBlockHeight
    /\ \A p \in Occupied : Unwrap(item) = RefBlockItem(height, p)

\* C21: when a position is occupied, smallest_subtree returns
\* (Some(item), h) where h in 1..H is the least height such that all
\* occupied positions lie in one aligned block of A^h positions, and item
\* is the aggregate of that block.
C21_SmallestSubtreeIsLeastBlock ==
    (~panicked /\ Occupied # {}) =>
        /\ LET r == smallest_subtreeLoop(root, <<>>, H, 0)
           IN  IsLeastBlock(r.item, r.height)
        /\ ret.op = "smallest_subtree" =>
              IsLeastBlock(Unwrap(ret.value).item, Unwrap(ret.value).height)

C21_Witness ==
    /\ ret.op = "smallest_subtree"
    /\ Unwrap(ret.value).height = 1
    /\ Len(Unwrap(Unwrap(ret.value).item)) = 2
    /\ Occupied = {2, 3}
    /\ IsNone(root.item)

\* C22: smallest_subtree returns (None, 0) exactly when no position is
\* occupied; its loop goes round at most H times and the height counter
\* does not go below 0.
C22_NoneIffEmpty ==
    ~panicked =>
        /\ LET r == smallest_subtreeLoop(root, <<>>, H, 0)
           IN  /\ (r.item = None /\ r.height = 0) <=> Occupied = {}
               /\ r.item = None <=> Occupied = {}
               /\ r.height = 0 <=> Occupied = {}
               /\ r.steps <= H
               /\ ~r.underflow
               /\ r.height >= 0
        /\ ret.op = "smallest_subtree" =>
              /\ Unwrap(ret.value).item = None <=> Occupied = {}
              /\ Unwrap(ret.value).height = 0 <=> Occupied = {}
              /\ Unwrap(ret.value).steps <= H

C22_Witness ==
    /\ ret.op = "smallest_subtree"
    /\ Unwrap(ret.value).item = None
    /\ Unwrap(ret.value).height = 0
    /\ Occupied = {}
    /\ positions = {}

\* The subtree of `node` at `depth`, whose first position is `base`, has a
\* child exactly where a position below that child is occupied; a leaf
\* holds an item and has no child.
RECURSIVE Sparse(_, _, _)
Sparse(node, depth, base) ==
    IF depth = H THEN IsSome(node.item) /\ \A i \in 1..A : IsNone(node.children[i])
    ELSE \A i \in 1..A :
            LET child_base == base + (i - 1) * Pow(A, H - depth - 1)
            IN  /\ IsSome(node.children[i]) <=> OccupiedBelow(leaves, depth + 1, child_base)
                /\ IsSome(node.children[i])
                      => Sparse(Unwrap(node.children[i]), depth + 1, child_base)

\* C23: after any sequence of inserts and removes a child slot at any depth
\* is present exactly when an occupied position lies in that child's
\* subtree; the root node always remains.
C23_SparseNodes ==
    ~panicked => Sparse(root, 0, 0)

C23_Witness ==
    /\ ret.op = "remove"
    /\ IsSome(ret.value)
    /\ IsNone(root.children[1])
    /\ IsSome(root.children[2])
    /\ IsNone(Unwrap(root.children[2]).children[1])
    /\ Sparse(root, 0, 0)

\* The limbs of arity^depth as a number of five limbs, wide enough for
\* every instantiation.
RECURSIVE RefPowerLimbs(_, _)
RefPowerLimbs(arity, depth) ==
    IF depth = 0 THEN <<1, 0, 0, 0, 0>>
    ELSE MulLimbs(RefPowerLimbs(arity, depth - 1), arity, 1, 0).limbs

\* C24: capacity() equals the mathematical value A^H for every H and A a
\* tree is instantiated with; the 64-bit power does not wrap.
C24_CapacityIsPower ==
    ret.op = "capacity" =>
        /\ ~ret.panic
        /\ Unwrap(ret.value).limbs \o <<0>>
              = RefPowerLimbs(Unwrap(ret.value).arity, Unwrap(ret.value).height)

\* The internal nodes that remain on the way from `node` at `depth` to
\* `position` have no cached item.
RECURSIVE PathStale(_, _, _)
PathStale(node, depth, position) ==
    depth < H =>
        /\ IsNone(node.item)
        /\ LET child == node.children[Digit(position, depth) + 1]
           IN  IsSome(child) => PathStale(Unwrap(child), depth + 1, position)

\* The last call changed the tree at ret.position.
Mutated ==
    /\ ~ret.panic
    /\ \/ ret.op = "insert"
       \/ ret.op = "remove" /\ IsSome(ret.held)

\* C25: insert and remove do not recompute: on return every internal node
\* that remains on the path from the root to the changed position has its
\* cache marked stale.
C25_MutationLeavesPathStale ==
    Mutated => PathStale(root, 0, ret.position)

C25_Witness ==
    /\ ret.op = "remove"
    /\ Mutated
    /\ ret.position = 0
    /\ IsSome(root.children[1])
    /\ IsSome(root.children[2])
    /\ IsSome(Unwrap(root.children[2]).item)
    /\ PathStale(root, 0, ret.position)

\* Every node of the subtree has a cached item.
RECURSIVE AllValid(_)
AllValid(node) ==
    /\ IsSome(node.item)
    /\ \A i \in 1..A : IsSome(node.children[i]) => AllValid(Unwrap(node.children[i]))

\* Every cached item in the subtree of `node` at `depth`, whose first
\* position is `base`, is what recomputation from the children gives and
\* what the leaf map gives, and lies above cached items only.
RECURSIVE Coherent(_, _, _)
Coherent(node, depth, base) ==
    depth < H =>
        /\ IsSome(node.item) =>
              /\ Unwrap(node.item) = ItemOf([node EXCEPT !.item = None])
              /\ Unwrap(node.item) = IF OccupiedBelow(leaves, depth, base)
                                     THEN RefItem(leaves, depth, base)
                                     ELSE EMPTY_SUBTREE
              /\ AllValid(node)
        /\ \A i \in 1..A :
              IsSome(node.children[i]) =>
                  Coherent(Unwrap(node.children[i]), depth + 1,
                           base + (i - 1) * Pow(A, H - depth - 1))

\* C26: in every reachable state a node whose cache is valid holds the
\* value recomputation from its current children gives, and all its present
\* descendants are valid too, so that no read returns an out-of-date
\* aggregate.
C26_ValidCachesAreCurrent ==
    ~panicked => Coherent(root, 0, 0)

C26_Witness ==
    /\ ~panicked
    /\ walk = None
    /\ IsNone(root.item)
    /\ IsSome(root.children[1])
    /\ IsSome(root.children[2])
    /\ IsSome(Unwrap(root.children[1]).item)
    /\ IsNone(Unwrap(root.children[2]).item)
    /\ Coherent(root, 0, 0)

\* The call of next() that first returned None.
FirstNone ==
    CHOOSE n \in 1..Len(Log) : Log[n] = None /\ \A m \in 1 .. (n - 1) : IsSome(Log[m])

\* The occupied positions whose leaf item and whose ancestors' aggregate
\* items, from depth `top` down, satisfy the walker.
Eligible(walker, top) ==
    {p \in Occupied :
        /\ Walker(walker, Unwrap(leaves[p]))
        /\ \A depth \in top .. (H - 1) : Walker(walker, RefAncestorItem(leaves, depth, p))}

HeldOpenings ==
    {o \in (IF IsSome(kept) THEN {Unwrap(kept).opening} ELSE {})
              \cup (IF IsSome(parsed) /\ Unwrap(parsed).result.ok
                    THEN {Unwrap(Unwrap(parsed).result.value)} ELSE {}) :
        \A h \in 1..H : o.positions[h] < A}

\* The items offered to verify for the Opening o.
VerifyCandidates(o) ==
    {IntoItem(c) : c \in Letters}
        \cup {EMPTY_SUBTREE, o.root, o.branch[H][o.positions[H] + 1]}

\* The checks of the levels and of the root all hold for the candidate c.
ChainHolds(o, c) ==
    /\ c = o.branch[H][o.positions[H] + 1]
    /\ \A h \in 1 .. (H - 1) : aggregate(o.branch[h + 1]) = o.branch[h][o.positions[h] + 1]
    /\ aggregate(o.branch[1]) = o.root

\* C28: for an Opening with indices below A, made by a tree or decoded
\* from bytes, verify(c) is true if and only if c is the recorded leaf
\* entry, the aggregate of each level is the recorded entry of the level
\* above, and the aggregate of level 0 is the root.
C28_VerifyIffChain ==
    \A o \in HeldOpenings : \A c \in VerifyCandidates(o) :
        /\ ~verify(o, c).panic
        /\ verify(o, c).ok <=> ChainHolds(o, c)

C28_Witness ==
    /\ IsSome(parsed)
    /\ Unwrap(parsed).result.ok
    /\ Unwrap(Unwrap(parsed).result.value) \in HeldOpenings
    /\ Unwrap(Unwrap(parsed).result.value) # Unwrap(kept).opening
    /\ LET o == Unwrap(Unwrap(parsed).result.value)
       IN  /\ aggregate(o.branch[H]) = o.branch[H - 1][o.positions[H - 1] + 1]
           /\ aggregate(o.branch[1]) # o.root
           /\ ~verify(o, o.branch[H][o.positions[H] + 1]).ok
    /\ Verifies(Unwrap(kept).opening, Unwrap(kept).item)

\* The references of the internal nodes of the subtree of `node` at
\* `depth` that have no cached item, each prefixed by `ref`.
RECURSIVE StaleRefs(_, _, _)
StaleRefs(node, depth, ref) ==
    IF depth >= H THEN {}
    ELSE (IF IsNone(node.item) THEN {ref} ELSE {})
            \cup UNION {IF IsSome(node.children[i])
                        THEN StaleRefs(Unwrap(node.children[i]), depth + 1, Append(ref, i - 1))
                        ELSE {} : i \in 1..A}

\* The references of the internal nodes that remain on the way from `node`
\* at `depth` to `position`.
RECURSIVE PathRefs(_, _, _, _)
PathRefs(node, depth, ref, position) ==
    IF depth >= H THEN {}
    ELSE {ref} \cup
            LET i == Digit(position, depth)
            IN  IF IsSome(node.children[i + 1])
                THEN PathRefs(Unwrap(node.children[i + 1]), depth + 1, Append(ref, i), position)
                ELSE {}

C30_OneMutationCostsOnePath ==
    [][(/\ ret.op = "root"
        /\ ret'.op \in {"insert", "remove"}
        /\ ~ret'.panic)
          => /\ Node_itemCalls(root') <= H
             /\ Node_itemCalls(root')
                   <= Cardinality(PathRefs(root', 0, <<>>, ret'.position))
             /\ StaleRefs(root', 0, <<>>)
                   \subseteq PathRefs(root', 0, <<>>, ret'.position)
             /\ Node_item(root').item = Some(RefRoot')]_vars

C30_Witness ==
    /\ ret.op \in {"insert", "remove"}
    /\ ~ret.panic
    /\ Node_itemCalls(root) = H
    /\ \A i \in 1..A : IsSome(root.children[i])
    /\ Cardinality(StaleRefs(root, 0, <<>>)) = H

\* The references a tree of height H can hold: the child indices from the
\* root down to a node, for every depth up to H.
RECURSIVE RefsOfLength(_)
RefsOfLength(n) ==
    IF n = 0 THEN {<<>>}
    ELSE {Append(ref, i) : ref \in RefsOfLength(n - 1), i \in 0..(A - 1)}

AllRefs == UNION {RefsOfLength(n) : n \in 0..H}

\* Whether the tree under `node` holds a node at `ref`.
RECURSIVE Present(_, _)
Present(node, ref) ==
    \/ ref = <<>>
    \/ /\ IsSome(node.children[Head(ref) + 1])
       /\ Present(Unwrap(node.children[Head(ref) + 1]), Tail(ref))

\* Whether `ref` names a node on the way from the root to `position`.
OnPath(ref, position) == \A k \in 1..Len(ref) : ref[k] = Digit(position, k - 1)

\* C31: insert(p, v) and remove(p) leave every other position q # p as it
\* was, in the occupied set and in the value stored for it, and leave the
\* presence and the cached item of every node off the path from the root
\* to p untouched.
C31_MutationFrame ==
    [][(/\ ret'.op \in {"insert", "remove"}
        /\ ~ret'.panic)
          => /\ \A q \in (0..(Capacity - 1)) \ {ret'.position} :
                    /\ (q \in positions') = (q \in positions)
                    /\ StoredAt(root', 0, q) = StoredAt(root, 0, q)
             /\ \A ref \in AllRefs :
                    ~OnPath(ref, ret'.position)
                       => /\ Present(root', ref) = Present(root, ref)
                          /\ Present(root, ref)
                                => NodeAt(root', ref).item = NodeAt(root, ref).item]_vars

C31_Witness ==
    /\ ret.op = "remove"
    /\ ~ret.panic
    /\ IsSome(ret.held)
    /\ IsNone(root.item)
    /\ \E ref \in RefsOfLength(1) :
          /\ ~OnPath(ref, ret.position)
          /\ Present(root, ref)
          /\ IsSome(NodeAt(root, ref).item)
          /\ Present(root, Append(ref, 0)) /\ Present(root, Append(ref, 1))

\* What a Walk in state `w` returns over its next `n` calls of next() on
\* the tree `tree_root`.
RECURSIVE WalkItems(_, _, _)
WalkItems(w, tree_root, n) ==
    IF n = 0 THEN <<>>
    ELSE CHOOSE items \in {<<r.item>> \o WalkItems(r.walk, r.root, n - 1) :
                              r \in {Walk_nextResult(w, tree_root)}} : TRUE

\* The number of calls of next() that takes a Walk through the tree and
\* past its first None.
WalkCalls == Capacity + 2

\* What every operation of the tree returns when it is the next one called
\* on the tree `tree_root` with the occupied set `tree_positions`, and for
\* a mutation the tree it leaves, as its later readers see it.
Results(tree_root, tree_positions, w) ==
    [root |-> ItemOf(tree_root),
     contains |-> tree_positions,
     len |-> Cardinality(tree_positions),
     smallest_subtree |-> CHOOSE s \in {<<r.item, r.height>> :
                              r \in {smallest_subtreeLoop(tree_root, <<>>, H, 0)}} : TRUE,
     opening |-> [p \in PositionInputs |->
                     CHOOSE o \in {<<r.panic, r.opening>> :
                         r \in {Tree_openingResult(tree_root, tree_positions, p)}} : TRUE],
     remove |-> [p \in PositionInputs |->
                     CHOOSE o \in {<<r.panic, r.value, r.positions, Node_item(r.root)>> :
                         r \in {Tree_removeResult(tree_root, tree_positions, p)}} : TRUE],
     insert |-> [p \in PositionInputs |-> [c \in Letters |->
                     CHOOSE o \in {<<r.panic, Node_item(r.node)>> :
                         r \in {Node_insert(tree_root, 0, p, IntoItem(c))}} : TRUE]],
     walk |-> [walker \in Walkers |-> WalkItems(Walk_new(walker), tree_root, WalkCalls)],
     next |-> IF IsNone(w) THEN <<>> ELSE WalkItems(Unwrap(w).state, tree_root, WalkCalls)]

\* A step of root(), opening(), smallest_subtree() or of a Walk.
ReadStep ==
    \/ IsSome(walk)
    \/ IsSome(walk')
    \/ ret'.op \in {"root", "opening", "smallest_subtree"}

\* C32: root(), opening(), contains(), len(), smallest_subtree() and the
\* iteration of a Walk leave the stored leaves, the occupied set and the
\* present child slots as they were and only fill caches that were empty;
\* whatever operation comes after returns what it would have returned
\* without the read, and leaves the same tree.
C32_ReadsChangeNoResult ==
    [][ReadStep
          => /\ positions' = positions
             /\ \A q \in 0..(Capacity - 1) : StoredAt(root', 0, q) = StoredAt(root, 0, q)
             /\ \A ref \in AllRefs :
                    /\ Present(root', ref) = Present(root, ref)
                    /\ (Present(root, ref) /\ IsSome(NodeAt(root, ref).item))
                          => NodeAt(root', ref).item = NodeAt(root, ref).item
             /\ root' # root
                   => Results(root', positions', walk') = Results(root, positions, walk')]_vars

C32_Witness ==
    /\ IsSome(walk)
    /\ Len(Unwrap(walk).log) = 1
    /\ IsSome(Unwrap(walk).log[1])
    /\ Unwrap(walk).state.walker = "hasB"
    /\ Cardinality(positions) = 3
    /\ StaleRefs(root, 0, <<>>) = {<<>>}
    /\ ret.op \in {"insert", "remove"}

\* The reference of the node at `depth` on the way to `position`.
PathRef(position, depth) == [k \in 1..depth |-> Digit(position, k - 1)]

\* C33: in every reachable state and for every occupied position p, the
\* descents of remove(p) and opening(p) find a present child at every
\* level and a stored value at the leaf, so that neither aborts; and no
\* node at depth H has a child.
C33_DescentsNeverAbort ==
    /\ \A p \in positions :
          /\ p < Capacity
          /\ \A depth \in 1..H : Present(root, PathRef(p, depth))
          /\ IsSome(StoredAt(root, 0, p))
          /\ ~Tree_removeResult(root, positions, p).panic
          /\ ~Tree_openingResult(root, positions, p).panic
    /\ \A ref \in RefsOfLength(H) :
          Present(root, ref) => ~HasChildren(NodeAt(root, ref))

C33_Witness ==
    /\ ret.op = "remove"
    /\ IsSome(ret.held)
    /\ ~ret.panic
    /\ Cardinality(positions) = 2
    /\ \E i \in 1..A : IsNone(root.children[i])
    /\ \A p \in positions : IsSome(Tree_removeResult(root, positions, p).value)

\* C34: every Opening that from_slice returns as Ok has each of its indices
\* below A, so that verify on it, whatever the item, never indexes a level
\* out of range and never aborts.
C34_DecodedIndicesInRange ==
    (IsSome(parsed) /\ Unwrap(parsed).result.ok)
        => LET o == Unwrap(Unwrap(parsed).result.value)
           IN  /\ \A h \in 1..H : o.positions[h] < A
               /\ \A c \in {IntoItem(l) : l \in Letters} \cup {EMPTY_SUBTREE, o.root} :
                      ~verify(o, c).panic

\* The tree that inserting the leaves of `lv` at the positions `ps`, the
\* lowest first, into `node` gives.
RECURSIVE InsertAll(_, _, _)
InsertAll(node, lv, ps) ==
    IF ps = {} THEN node
    ELSE LET p == CHOOSE q \in ps : \A o \in ps : q <= o
         IN  InsertAll(Node_insert(node, 0, p, Unwrap(lv[p])).node, lv, ps \ {p})

\* A tree built anew with the leaves of the current one and never read.
Rebuilt == Tree_clone(InsertAll(Node_new, [p \in positions |-> StoredAt(root, 0, p)], positions),
                      positions)

\* C35: two trees that hold the same leaves at the same positions compare
\* equal, whatever inserts and removes made them and whatever reads were
\* made on either: the tree equals the one built anew from its leaves, and
\* equals its own clone after root() was read on the clone.
C35_SameLeavesCompareEqual ==
    ~panicked
        => /\ Tree_eq(Tree_clone(root, positions), Rebuilt)
           /\ Tree_eq(Tree_clone(root, positions), Tree_clone(Node_item(root), positions))

\* C36: after every sequence of inserts and removes the eager tree, which
\* recomputes the items of the path inside insert and remove and resets
\* the root when the tree becomes empty, and the lazy tree, which marks the
\* path stale and recomputes on a read, return the same root(), the empty
\* item being the same at every height; they also hold the same positions.
C36_EagerAndLazyAgree ==
    ~panicked
        => /\ Eager_Tree_root(eager) = ItemOf(root)
           /\ eager.positions = positions

C36_Witness ==
    /\ ret.op = "remove"
    /\ IsSome(ret.held)
    /\ ~panicked
    /\ Cardinality(positions) = 2
    /\ IsNone(root.item)
    /\ \E i \in 1..A : IsNone(eager.root.children[i])
    /\ Eager_Tree_root(eager) # EMPTY_SUBTREE

\* The item of the subtree at `depth` whose first position is `base`, when
\* an absent child of a node at depth d stands for EMPTY_SUBTREES[d + k];
\* an index outside the array gives no item.
RECURSIVE RefIndexedItem(_, _, _, _)
RefIndexedItem(lv, depth, base, k) ==
    IF depth = H THEN Unwrap(lv[base])
    ELSE aggregate([i \in 1..A |->
            LET child_base == base + (i - 1) * Pow(A, H - depth - 1)
            IN  IF OccupiedBelow(lv, depth + 1, child_base)
                THEN RefIndexedItem(lv, depth + 1, child_base, k)
                ELSE IF depth + k < H THEN EMPTY_SUBTREES[depth + k + 1]
                ELSE <<"out of range">>])

\* The root with the index advancing by one per level; a childless root
\* yields the entry of depth 0.
RefIndexedRoot(lv, k) ==
    IF OccupiedBelow(lv, 0, 0) THEN RefIndexedItem(lv, 0, 0, k) ELSE EMPTY_SUBTREES[1]

\* C37: in the height-indexed variant the item of a node at depth d is
\* computed with the empty item of the level of each absent child, the
\* index into EMPTY_SUBTREES advancing by one per level of descent, and a
\* childless node at depth d yields the entry of depth d: root() of a tree
\* not read before is the item so computed, the level of the children of
\* the root being entry 0 (as compute_item has it) or entry 1.
C37_EmptyIndexAdvances ==
    ~panicked
        => /\ ~Indexed_Tree_root(Rebuilt.root).panic
           /\ \E k \in {0, 1} :
                 Indexed_Tree_root(Rebuilt.root).node.item = Some(RefIndexedRoot(leaves, k))

\* C38: Item::aggregate returns the Poseidon hash of the hashes of the
\* children in child order, and the aggregate of the data of the children
\* in child order; the hash is the same for any children with these
\* hashes, whatever their data, and the data is the same for any children
\* with this data, whatever their hashes.
C38_HashAndDataApart ==
    ret.op = "aggregate"
        => LET items == Unwrap(ret.item)
               result == Unwrap(ret.value)
           IN  /\ result.hash = poseidon_hash([i \in 1..A |-> items[i].hash])
               /\ result.data = aggregate([i \in 1..A |-> items[i].data])
               /\ \A others \in [1..A -> ItemInputs] :
                     /\ (\A i \in 1..A : others[i].hash = items[i].hash)
                           => Item_aggregate(others).hash = result.hash
                     /\ (\A i \in 1..A : others[i].data = items[i].data)
                           => Item_aggregate(others).data = result.data

C38_Witness ==
    /\ ret.op = "aggregate"
    /\ Unwrap(ret.item)[1].hash # Unwrap(ret.item)[2].hash
    /\ Unwrap(ret.item)[1].data = EMPTY_SUBTREE
    /\ Unwrap(ret.item)[1].hash # ScalarZero
    /\ Unwrap(ret.item)[2].data = IntoItem("B")
    /\ Unwrap(ret.value).data = IntoItem("B")

\* C39: for the Opening that Tree::opening returns and the hash of its
\* leaf, whatever the arity, building the gadget does not abort, its
\* constraints hold, the position bits of every level are boolean with
\* exactly one of the A equal to 1, the hash at the set index equals the
\* needle carried to the level, and the witness returned is the hash of the
\* root of the opening.
C39_GadgetOneHotAndRoot ==
    (ret.op = "opening" /\ IsSome(ret.opening))
        => LET opening == Unwrap(ret.opening)
               leaf == Unwrap(ret.held)
               g == gadget(opening, leaf)
           IN  /\ ~g.panic
               /\ g.satisfied
               /\ \A h \in 1..H :
                     /\ \A i \in 1..A : g.pos_bits[h][i] \in {0, 1}
                     /\ Cardinality({i \in 1..A : g.pos_bits[h][i] = 1}) = 1
                     /\ \A i \in 1..A :
                           g.pos_bits[h][i] = 1
                              => opening.branch[h][i] = needle_at(opening, leaf, h)
               /\ g.needle = opening.root

\* The child indices the descent over the u64 position takes: at each
\* height child_location gives the index and the position within the child.
RECURSIVE DescentIndices(_, _)
DescentIndices(height, position) ==
    IF height = H THEN <<>>
    ELSE <<child_location(height, position)[1]>>
            \o DescentIndices(height + 1, child_location(height, position)[2])

\* C40: TreePosition::from(n) holds the H base-A digits of n, the most
\* significant first, so that n and n mod A^H give the same TreePosition;
\* for n < A^H they are the child indices of the descent by child_location
\* and the positions of the Opening of n; MIN is from(0) and MAX is
\* from(A^H - 1).
C40_TreePositionIsDigits ==
    /\ ret.op = "from"
          => LET n == ret.position
                 made == Unwrap(ret.value)
             IN  /\ \A h \in 0..(H - 1) :
                        made.indices[h + 1] = (n \div Pow(A, H - 1 - h)) % A
                 /\ made = TreePosition_from(n % Capacity)
                 /\ n < Capacity => made.indices = DescentIndices(0, n)
    /\ (ret.op = "opening" /\ IsSome(ret.opening))
          => Unwrap(ret.opening).positions = TreePosition_from(ret.position).indices
    /\ TreePosition_MIN = TreePosition_from(0)
    /\ TreePosition_MAX = TreePosition_from(Capacity - 1)

C40_Witness ==
    /\ ret.op = "from"
    /\ ret.position > Capacity
    /\ Unwrap(ret.value).indices[1] # Unwrap(ret.value).indices[H]
    /\ Unwrap(ret.value) # TreePosition_MIN
    /\ Unwrap(ret.value) # TreePosition_MAX
    /\ positions # {}

====
